---- MODULE Spec2Model ----
(***************************************************************************)
(* Model of the Go localization backend: the payload loader (init), the    *)
(* deterministic assignment (getPayloadForUser) and the HTTP handlers      *)
(* (healthCheck, experiment) of main.go.                                   *)
(*                                                                         *)
(* Strings are sequences of bytes (naturals below 256), so that ordinal    *)
(* comparison, suffix tests, formatting and hashing are computed and not   *)
(* assumed.  32-bit words are pairs of 16-bit halves, so that arithmetic   *)
(* modulo 2^32 is exact.                                                   *)
(***************************************************************************)
EXTENDS Integers, Sequences, FiniteSets, TLC

\* ------------------------------------------------------------------ bounds

\* Longest userId a modelled client sends.
MaxKeyLen == 2

\* Number of HTTP requests the modelled clients issue against one process.
MaxRequests == 2

\* Largest number of entries of the payloads directory (loader specification).
MaxFiles == 2

\* Number of connections the modelled server holds.
MaxConns == 2

\* Largest number of chunks a response is written in.
MaxChunks == 2

\* Longest collection of arbitrary latencies handed to calculatePercentile.
MaxSamples == 5

\* Largest number of client goroutines of a load test run.
MaxClients == 2

\* Largest RequestsPerClient of a load test run.
MaxPerClient == 1

\* Longest elapsed time of a load test run, in seconds.
MaxSeconds == 2

\* Largest number of work items (users times requests per user) of a
\* verifier run, and largest number of users and of requests per user.
MaxWork == 3

\* Largest -concurrency of a verifier run.
MaxWorkers == 2

\* Largest number of users, and largest count of a name, in the maps handed
\* to analyzeResults on its own.
MaxObserved == 2

\* Longest response body a slow client reads, in bytes.
MaxBody == 3

\* Longest buffer a copy hands to SlowReader.Read (io.Copy's has 8192 bytes).
MaxBuf == 3

\* ------------------------------------------------------------ byte strings

Half == 2 ^ 16

\* ".json"
DotJson == <<46, 106, 115, 111, 110>>

\* "payloads"
PayloadsKey == <<112, 97, 121, 108, 111, 97, 100, 115>>

\* "userId"
UserIdKey == <<117, 115, 101, 114, 73, 100>>

\* "exp-localization-v1"
ExperimentIdV1 ==
    <<101, 120, 112, 45, 108, 111, 99, 97, 108, 105, 122, 97, 116, 105, 111,
      110, 45, 118, 49>>

\* strings.HasSuffix(s, suffix)
HasSuffix(s, suffix) ==
    /\ Len(s) >= Len(suffix)
    /\ SubSeq(s, Len(s) - Len(suffix) + 1, Len(s)) = suffix

\* Ordinal (bytewise) string order, Go's s < t on strings.
RECURSIVE StrLess(_, _)
StrLess(s, t) ==
    IF t = <<>> THEN FALSE
    ELSE IF s = <<>> THEN TRUE
    ELSE IF Head(s) # Head(t) THEN Head(s) < Head(t)
    ELSE StrLess(Tail(s), Tail(t))

\* Insertion of x into an ascending sequence of strings.
RECURSIVE InsertSorted(_, _)
InsertSorted(x, s) ==
    IF s = <<>> THEN <<x>>
    ELSE IF StrLess(x, Head(s)) THEN <<x>> \o s
    ELSE <<Head(s)>> \o InsertSorted(x, Tail(s))

\* The listing order kept: what a loader without the sort would use.
SortStringsOmitted(names) == names

\* sort.Strings(names): the names in ascending ordinal order.
RECURSIVE SortStrings(_)
SortStrings(names) ==
    IF names = <<>> THEN <<>>
    ELSE InsertSorted(Head(names), SortStrings(Tail(names)))

\* The decimal digits of a natural, as fmt's %d prints it.
RECURSIVE FormatInt(_)
FormatInt(i) ==
    IF i < 10 THEN <<48 + i>>
    ELSE FormatInt(i \div 10) \o <<48 + (i % 10)>>

\* A 1-based element index in the name.
PayloadNameOneBased(name, i) == name \o <<91>> \o FormatInt(i + 1) \o <<93>>

\* A name without the element's index.
PayloadNameUnindexed(name, i) == name

\* fmt.Sprintf("%s[%d]", name, i)
PayloadName(name, i) == name \o <<91>> \o FormatInt(i) \o <<93>>

\* ------------------------------------------------------------ 32-bit hash

\* Bitwise exclusive or of two bytes.
RECURSIVE XorBits(_, _, _)
XorBits(a, b, bits) ==
    IF bits = 0 THEN 0
    ELSE ((a + b) % 2) + 2 * XorBits(a \div 2, b \div 2, bits - 1)

\* FNV offset basis 0x811c9dc5 (hash/fnv offset32).
Offset32 == [hi |-> 33052, lo |-> 40389]

\* h ^ uint32(c): only the low byte changes.
XorByte(h, c) ==
    [hi |-> h.hi, lo |-> (h.lo - (h.lo % 256)) + XorBits(h.lo % 256, c, 8)]

\* h * 0x01000193 modulo 2^32 (hash/fnv prime32 = 256 * 2^16 + 403).
MulPrime32(h) ==
    LET low == h.lo * 403
    IN  [hi |-> (h.hi * 403 + h.lo * 256 + (low \div Half)) % Half,
         lo |-> low % Half]

\* FNV-1 order of the step: multiply, then exclusive or.
Fnv32Step(h, c) == XorByte(MulPrime32(h), c)

\* One step of fnv.New32a's Write: exclusive or, then multiply.
Fnv32aStep(h, c) == MulPrime32(XorByte(h, c))

\* h.Write(key) on a fresh fnv.New32a, then h.Sum32().
RECURSIVE Fnv32aFrom(_, _)
Fnv32aFrom(h, key) ==
    IF key = <<>> THEN h
    ELSE Fnv32aFrom(Fnv32aStep(h, Head(key)), Tail(key))

Sum32(key) == Fnv32aFrom(Offset32, key)

\* An unsigned 32-bit word modulo a positive n.
ModU32(h, n) == ((h.hi % n) * (Half % n) + (h.lo % n)) % n

\* 2^32 modulo a positive n.
Pow32Mod(n) == ((Half % n) * (Half % n)) % n

\* ------------------------------------------------------------------- JSON
\* A JSON value is a node [t, s, e]: t the type ("null", "true", "false",
\* "num", "str", "arr", "obj"), s the bytes of a string or of a number
\* literal, e the children: the elements of an array, the members of an
\* object in the order written.  A member is a node of type "member" whose
\* s is the key and whose e holds the value.

JNull == [t |-> "null", s |-> <<>>, e |-> <<>>]
JTrue == [t |-> "true", s |-> <<>>, e |-> <<>>]
JNum(lit) == [t |-> "num", s |-> lit, e |-> <<>>]
JStr(str) == [t |-> "str", s |-> str, e |-> <<>>]
JArr(elems) == [t |-> "arr", s |-> <<>>, e |-> elems]
JObj(members) == [t |-> "obj", s |-> <<>>, e |-> members]
JMember(key, val) == [t |-> "member", s |-> key, e |-> <<val>>]

\* A text (the bytes of a file, of a request or response body) is either
\* no JSON document (syntax "bad") or the document v, written with or
\* without insignificant white space (ws).
BadText == [syntax |-> "bad", ws |-> FALSE, v |-> JNull]
Text(val, spaced) == [syntax |-> "ok", ws |-> spaced, v |-> val]

\* strconv's shortest formatting of the float64 a number literal decodes
\* to, for the literals of the model: an integral "n.0" prints as "n".
FormatFloat(lit) ==
    IF HasSuffix(lit, <<46, 48>>) THEN SubSeq(lit, 1, Len(lit) - 2) ELSE lit

\* m[key] = val on a Go map, kept as its members in ascending key order
\* (the order json.Marshal writes a map in).
RECURSIVE MapSet(_, _, _)
MapSet(members, key, val) ==
    IF members = <<>> THEN <<JMember(key, val)>>
    ELSE IF Head(members).s = key THEN <<JMember(key, val)>> \o Tail(members)
    ELSE IF StrLess(key, Head(members).s) THEN <<JMember(key, val)>> \o members
    ELSE <<Head(members)>> \o MapSet(Tail(members), key, val)

\* The Go value (interface{}) a JSON value decodes to: numbers become
\* float64, objects become maps (a repeated key keeps its last value).
RECURSIVE Decode(_)
RECURSIVE DecodeMembers(_, _)
DecodeMembers(members, acc) ==
    IF members = <<>> THEN acc
    ELSE DecodeMembers(Tail(members),
                       MapSet(acc, Head(members).s, Decode(Head(members).e[1])))

Decode(val) ==
    CASE val.t = "num" -> JNum(FormatFloat(val.s))
      [] val.t = "arr" -> JArr([i \in 1..Len(val.e) |-> Decode(val.e[i])])
      [] val.t = "obj" -> JObj(DecodeMembers(val.e, <<>>))
      [] OTHER -> val

\* json.Unmarshal(content, &parsed) with parsed a map[string]interface{}:
\* a syntax error for a text that is no JSON, no error and a nil map for
\* null, a map for an object, an UnmarshalTypeError for any other value.
UnmarshalMap(content) ==
    IF content.syntax = "bad" THEN [err |-> TRUE, m |-> <<>>]
    ELSE IF content.v.t = "null" THEN [err |-> FALSE, m |-> <<>>]
    ELSE IF content.v.t = "obj" THEN [err |-> FALSE, m |-> Decode(content.v).e]
    ELSE [err |-> TRUE, m |-> <<>>]

\* m[key] on a decoded map: the value, or the nil interface (JSON null has
\* the same zero value) when the key is absent.
RECURSIVE MapGet(_, _)
MapGet(members, key) ==
    IF members = <<>> THEN JNull
    ELSE IF Head(members).s = key THEN Head(members).e[1]
    ELSE MapGet(Tail(members), key)

\* json.Marshal of a decoded value: compact, map keys ascending.
Marshal(goValue) == Text(goValue, FALSE)

\* json.Unmarshal(body, &req) with req a model.Request{UserID string
\* `json:"userId"`}: null leaves req zero, an object sets UserID from a
\* string member, a member of another type or another top-level value is
\* an UnmarshalTypeError.
UnmarshalRequest(body) ==
    IF body.syntax = "bad" THEN [err |-> TRUE, UserID |-> <<>>]
    ELSE IF body.v.t = "null" THEN [err |-> FALSE, UserID |-> <<>>]
    ELSE IF body.v.t # "obj" THEN [err |-> TRUE, UserID |-> <<>>]
    ELSE LET id == MapGet(Decode(body.v).e, UserIdKey)
         IN  IF id.t = "str" THEN [err |-> FALSE, UserID |-> id.s]
             ELSE IF id.t = "null" THEN [err |-> FALSE, UserID |-> <<>>]
             ELSE [err |-> TRUE, UserID |-> <<>>]

\* ------------------------------------------------------------------ state

VARIABLES
    intSize,    \* width in bits of Go's int on the build's target: 32 or 64
    dirErr,     \* whether os.ReadDir("payloads") fails
    entries,    \* the directory listing, in the order ReadDir returns it
    payloads,   \* var payloads []Payload
    phase,      \* "init", "fatal" (log.Fatal), "main", "listening"
    requests,   \* per request: st ("idle", "sent", "done"), route, body
    responses,  \* per request: the response written, and what the handler did
    conns,      \* per server connection: st, left (chunks unsent), timer
    sortedLatencies, \* calculatePercentile's first argument
    percentile, \* calculatePercentile's second argument, as written
    pctResult,  \* what calculatePercentile returned
    flags,      \* the load generator's command line, as flag.Parse left it
    config,     \* the load generator's TestConfig
    stats,      \* the load generator's Stats
    clients,    \* per client goroutine: pc, i, outcome, latency, seen
    ctx,        \* the channel ctx of runLoadTest: "none", "open", "closed"
    wg,         \* the counter of runLoadTest's sync.WaitGroup
    mainPc,     \* where the load generator's main goroutine is
    warmed,     \* whether the warm-up sleep of runLoadTest has returned
    monitor,    \* the monitorProgress goroutine: "off", "running", "stopped"
    duration,   \* endTime.Sub(startTime), in seconds
    report,     \* what printResults read and printed
    allocationTest, \* the verifier's -users, -requests and -concurrency
    workChan,   \* the items left in workChan (filled, then closed)
    userPayloads, \* userID -> payloadName -> count
    mu,         \* the mutex guarding userPayloads: 0 when free
    totalRequests,   \* atomic counter of runAllocationTest
    successRequests, \* atomic counter of runAllocationTest
    failedRequests,  \* atomic counter of runAllocationTest
    workers,    \* per worker goroutine: pc, userID, resp, payload, err
    poolWg,     \* the counter of runAllocationTest's sync.WaitGroup
    done,       \* the channel done: "none", "open", "closed"
    allocationPc, \* where the verifier's main goroutine is
    results,    \* the TestResults analyzeResults returned
    slowReader  \* one slow request of the load generator: its SlowReader,
                \* the response body under it and the copy that reads it

serverVars == <<intSize, dirErr, entries, payloads, phase, requests, responses>>

connVars == <<conns>>

pctVars == <<sortedLatencies, percentile, pctResult>>

genVars ==
    <<flags, config, stats, clients, ctx, wg, mainPc, warmed, monitor, duration,
      report>>

verifierVars ==
    <<allocationTest, workChan, userPayloads, mu, totalRequests,
      successRequests, failedRequests, workers, poolWg, done, allocationPc,
      results>>

readerVars == <<slowReader>>

\* The state of the programs and components other than the server process.
toolVars == <<connVars, pctVars, genVars, verifierVars, readerVars>>

vars == <<serverVars, toolVars>>

\* The widths the Go specification allows for int.
IntSizes == {32, 64}

\* -------------------------------------------------- the payloads directory

NameA == <<97, 46, 106, 115, 111, 110>>        \* "a.json"
NameAA == <<97, 97, 46, 106, 115, 111, 110>>   \* "aa.json"
NameB == <<66, 46, 106, 115, 111, 110>>        \* "B.json"
NameTxt == <<97, 46, 116, 120, 116>>           \* "a.txt"

FileNames == {NameA, NameAA, NameB, NameTxt}

\* { "b": 1.0, "a": "x" }
DocPlain ==
    Text(JObj(<<JMember(<<98>>, JNum(<<49, 46, 48>>)),
                JMember(<<97>>, JStr(<<120>>))>>), TRUE)

\* { "payloads": [ { "b": 1.0, "a": null }, "x" ] }
DocPayloads2 ==
    Text(JObj(<<JMember(PayloadsKey,
                  JArr(<<JObj(<<JMember(<<98>>, JNum(<<49, 46, 48>>)),
                               JMember(<<97>>, JNull)>>),
                         JStr(<<120>>)>>))>>), TRUE)

\* {"payloads":[]}
DocPayloads0 == Text(JObj(<<JMember(PayloadsKey, JArr(<<>>))>>), FALSE)

\* {"payloads":"x"}
DocPayloadsStr == Text(JObj(<<JMember(PayloadsKey, JStr(<<120>>))>>), FALSE)

\* [7]   "x"   7   true   null
DocArray == Text(JArr(<<JNum(<<55>>)>>), FALSE)
DocString == Text(JStr(<<120>>), FALSE)
DocNumber == Text(JNum(<<55>>), FALSE)
DocTrue == Text(JTrue, FALSE)
DocNull == Text(JNull, FALSE)

FileContents ==
    {BadText, DocPlain, DocPayloads2, DocPayloads0, DocPayloadsStr,
     DocArray, DocString, DocNumber, DocTrue, DocNull}

\* A directory entry: a subdirectory, a file os.ReadFile fails on, or a
\* file with its content.
SubDir(name) ==
    [name |-> name, isDir |-> TRUE, readable |-> FALSE, content |-> BadText]
Unreadable(name) ==
    [name |-> name, isDir |-> FALSE, readable |-> FALSE, content |-> BadText]
File(name, content) ==
    [name |-> name, isDir |-> FALSE, readable |-> TRUE, content |-> content]

DirEntries ==
    {SubDir(n) : n \in FileNames} \cup {Unreadable(n) : n \in FileNames}
        \cup {File(n, c) : n \in FileNames, c \in FileContents}

\* The listings of at most n entries with pairwise distinct names.
Listings(n) ==
    UNION {{l \in [1..k -> DirEntries] :
              \A i, j \in 1..k : i # j => l[i].name # l[j].name} : k \in 0..n}

\* The directories the request-serving specification boots from.
ServedDirs ==
    {<<>>,
     <<File(NameTxt, DocPlain)>>,
     <<File(NameA, BadText), Unreadable(NameB)>>,
     <<File(NameA, DocPayloads0), File(NameB, DocPayloads0)>>,
     <<File(NameA, DocPlain)>>,
     <<File(NameA, DocPayloads2)>>,
     <<File(NameAA, DocPayloads2), File(NameA, DocPlain)>>,
     <<File(NameA, DocPayloads2), File(NameB, DocPayloads2)>>}

\* ------------------------------------------------------------- the loader

\* The names of the entries that are no directory and end in ".json", in
\* listing order.
RECURSIVE JsonNames(_)
JsonNames(dir) ==
    IF dir = <<>> THEN <<>>
    ELSE IF ~Head(dir).isDir /\ HasSuffix(Head(dir).name, DotJson)
         THEN <<Head(dir).name>> \o JsonNames(Tail(dir))
         ELSE JsonNames(Tail(dir))

\* The entry called name.
EntryOf(dir, name) == dir[CHOOSE i \in 1..Len(dir) : dir[i].name = name]

\* A loader that keeps a file it cannot read or parse as a variant.
LoadFileKeepingBad(dir, name) ==
    LET f == EntryOf(dir, name)
        parsed == UnmarshalMap(f.content)
        payloadsArray == MapGet(parsed.m, PayloadsKey)
    IN  IF ~f.readable \/ parsed.err \/ payloadsArray.t # "arr"
        THEN <<[Name |-> name, Content |-> f.content]>>
        ELSE [i \in 1..Len(payloadsArray.e) |->
                [Name |-> PayloadName(name, i - 1),
                 Content |-> Marshal(payloadsArray.e[i])]]

\* One iteration of the loading loop: the variants the file contributes.
LoadFile(dir, name) ==
    LET f == EntryOf(dir, name)
        parsed == UnmarshalMap(f.content)
        payloadsArray == MapGet(parsed.m, PayloadsKey)
    IN  IF ~f.readable THEN <<>>
        ELSE IF parsed.err THEN <<>>
        ELSE IF payloadsArray.t = "arr"
             THEN [i \in 1..Len(payloadsArray.e) |->
                     [Name |-> PayloadName(name, i - 1),
                      Content |-> Marshal(payloadsArray.e[i])]]
             ELSE <<[Name |-> name, Content |-> f.content]>>

\* The loading loop over the sorted names.
RECURSIVE LoadPayloads(_, _)
LoadPayloads(dir, payloadNames) ==
    IF payloadNames = <<>> THEN <<>>
    ELSE LoadFile(dir, Head(payloadNames))
             \o LoadPayloads(dir, Tail(payloadNames))

\* The slice init builds from a listing.
BuildStore(dir) == LoadPayloads(dir, SortStrings(JsonNames(dir)))

\* A loader without the final check.
BootPhaseUnchecked(loaded) == "main"

\* The end of init: log.Fatal("No payloads loaded") on an empty slice.
BootPhase(loaded) == IF Len(loaded) = 0 THEN "fatal" ELSE "main"

\* func init()
init ==
    /\ phase = "init"
    /\ IF dirErr
       THEN /\ phase' = "fatal"
            /\ payloads' = <<>>
       ELSE /\ payloads' = payloads \o BuildStore(entries)
            /\ phase' = BootPhase(payloads \o BuildStore(entries))
    /\ UNCHANGED <<intSize, dirErr, entries, requests, responses>>
    /\ UNCHANGED toolVars

\* func main(): the handlers are registered and app.Listen accepts requests.
main ==
    /\ phase = "main"
    /\ phase' = "listening"
    /\ UNCHANGED <<intSize, dirErr, entries, payloads, requests, responses>>
    /\ UNCHANGED toolVars

\* ----------------------------------------------------------- the requests

Requests == 1..MaxRequests

\* The bytes userIds are made of: "a", "b".
KeyBytes == {97, 98}

\* The non-empty userIds of at most MaxKeyLen bytes.
UserIds == UNION {[1..k -> KeyBytes] : k \in 1..MaxKeyLen}

\* {"userId":"<userID>"}, as json.Marshal writes a Request.
RequestBody(userID) == Text(JObj(<<JMember(UserIdKey, JStr(userID))>>), FALSE)

\* {}
EmptyObjectBody == Text(JObj(<<>>), FALSE)

\* The bodies a client posts to /experiment: no JSON, no userId, an empty
\* userId, a userId.
Bodies ==
    {BadText, EmptyObjectBody, RequestBody(<<>>)}
        \cup {RequestBody(k) : k \in UserIds}

NoRequest == [st |-> "idle", route |-> "none", body |-> BadText]

\* A response: the status, the body, and what the handler did on the way:
\* whether it called getPayloadForUser and the index computed there.
NoResponse ==
    [status |-> 0, body |-> BadText, called |-> FALSE, index |-> 0]

ErrorKey == <<101, 114, 114, 111, 114>>
InvalidRequestBody ==
    <<73, 110, 118, 97, 108, 105, 100, 32, 114, 101, 113, 117, 101, 115,
      116, 32, 98, 111, 100, 121>>
UserIdIsRequired ==
    <<117, 115, 101, 114, 73, 100, 32, 105, 115, 32, 114, 101, 113, 117,
      105, 114, 101, 100>>
ExperimentIdKey ==
    <<101, 120, 112, 101, 114, 105, 109, 101, 110, 116, 73, 100>>
SelectedPayloadNameKey ==
    <<115, 101, 108, 101, 99, 116, 101, 100, 80, 97, 121, 108, 111, 97, 100,
      78, 97, 109, 101>>
PayloadKey == <<112, 97, 121, 108, 111, 97, 100>>
StatusKey == <<115, 116, 97, 116, 117, 115>>
MessageKey == <<109, 101, 115, 115, 97, 103, 101>>
OkString == <<111, 107>>
ServerIsRunning ==
    <<83, 101, 114, 118, 101, 114, 32, 105, 115, 32, 114, 117, 110, 110,
      105, 110, 103>>

\* c.Status(code).JSON(fiber.Map{"error": message})
ErrorResponse(code, message) ==
    [status |-> code,
     body |-> Text(JObj(<<JMember(ErrorKey, JStr(message))>>), FALSE),
     called |-> FALSE, index |-> 0]

\* What the recover middleware answers after a panic in the handler: 500
\* with a body that is no JSON.
PanicResponse(index) ==
    [status |-> 500, body |-> BadText, called |-> TRUE, index |-> index]

\* An assignment that rotates with the number of requests answered so far.
IndexOfRotating(userID) ==
    (ModU32(Sum32(userID), Len(payloads))
        + Cardinality({i \in DOMAIN requests : requests[i].st = "done"}))
            % Len(payloads)

\* int(h.Sum32()) % len(payloads), for len(payloads) > 0.  The conversion
\* keeps the value when int has 64 bits; with 32 bits a hash of 2^31 or
\* more becomes hash - 2^32, and Go's % takes the sign of the dividend.
IndexOf(userID) ==
    LET h == Sum32(userID)
        n == Len(payloads)
    IN  IF intSize = 32 /\ h.hi >= 2 ^ 15
        THEN 0 - (((Pow32Mod(n) + n) - ModU32(h, n)) % n)
        ELSE ModU32(h, n)

\* func getPayloadForUser(userID string) Payload.  A division by zero and
\* an index out of range are run-time panics.
getPayloadForUser(userID) ==
    IF Len(payloads) = 0
    THEN [panic |-> TRUE, index |-> 0, payload |-> [Name |-> <<>>, Content |-> BadText]]
    ELSE LET index == IndexOf(userID)
         IN  IF index < 0 \/ index >= Len(payloads)
             THEN [panic |-> TRUE, index |-> index,
                   payload |-> [Name |-> <<>>, Content |-> BadText]]
             ELSE [panic |-> FALSE, index |-> index,
                   payload |-> payloads[index + 1]]

\* c.JSON(model.Response{...}): the three members in field order; the
\* json.RawMessage is written as the JSON value it holds, compacted.
ResponseJSON(payload) ==
    Text(JObj(<<JMember(ExperimentIdKey, JStr(ExperimentIdV1)),
                JMember(SelectedPayloadNameKey, JStr(payload.Name)),
                JMember(PayloadKey, payload.Content.v)>>), FALSE)

\* The handler without the check of req.UserID.
experimentResponseUnvalidated(body) ==
    LET req == UnmarshalRequest(body)
        got == getPayloadForUser(req.UserID)
    IN  IF req.err THEN ErrorResponse(400, InvalidRequestBody)
        ELSE IF got.panic THEN PanicResponse(got.index)
        ELSE [status |-> 200, body |-> ResponseJSON(got.payload),
              called |-> TRUE, index |-> got.index]

\* func experiment(c *fiber.Ctx) error: the response to a request body.
experimentResponse(body) ==
    LET req == UnmarshalRequest(body)
        got == getPayloadForUser(req.UserID)
    IN  IF req.err THEN ErrorResponse(400, InvalidRequestBody)
        ELSE IF req.UserID = <<>> THEN ErrorResponse(400, UserIdIsRequired)
        ELSE IF got.panic THEN PanicResponse(got.index)
        ELSE IF got.payload.Content.syntax = "bad"
             THEN [status |-> 500, body |-> BadText,
                   called |-> TRUE, index |-> got.index]
        ELSE [status |-> 200, body |-> ResponseJSON(got.payload),
              called |-> TRUE, index |-> got.index]

\* func healthCheck(c *fiber.Ctx) error
healthCheckResponse ==
    [status |-> 200,
     body |-> Text(JObj(<<JMember(MessageKey, JStr(ServerIsRunning)),
                          JMember(StatusKey, JStr(OkString))>>), FALSE),
     called |-> FALSE, index |-> 0]

\* A client sends POST /experiment with a body; requests are numbered in
\* the order they arrive.
Post(i, body) ==
    /\ phase = "listening"
    /\ requests[i].st = "idle"
    /\ IF i = 1 THEN TRUE ELSE requests[i - 1].st # "idle"
    /\ requests' = [requests EXCEPT
                      ![i] = [st |-> "sent", route |-> "experiment", body |-> body]]
    /\ UNCHANGED <<intSize, dirErr, entries, payloads, phase, responses>>
    /\ UNCHANGED toolVars

\* A client sends GET /health.
Get(i) ==
    /\ phase = "listening"
    /\ requests[i].st = "idle"
    /\ IF i = 1 THEN TRUE ELSE requests[i - 1].st # "idle"
    /\ requests' = [requests EXCEPT
                      ![i] = [st |-> "sent", route |-> "health", body |-> BadText]]
    /\ UNCHANGED <<intSize, dirErr, entries, payloads, phase, responses>>
    /\ UNCHANGED toolVars

\* A handler that moves the variant it serves to the front of the slice.
experimentMovingToFront(i) ==
    /\ phase = "listening"
    /\ requests[i].st = "sent"
    /\ requests[i].route = "experiment"
    /\ responses' = [responses EXCEPT ![i] = experimentResponse(requests[i].body)]
    /\ requests' = [requests EXCEPT ![i].st = "done"]
    /\ payloads' =
          LET served == experimentResponse(requests[i].body)
          IN  IF served.status = 200
              THEN <<payloads[served.index + 1]>>
                       \o SubSeq(payloads, 1, served.index)
                       \o SubSeq(payloads, served.index + 2, Len(payloads))
              ELSE payloads
    /\ UNCHANGED <<intSize, dirErr, entries, phase>>
    /\ UNCHANGED toolVars

\* The handler of POST /experiment runs for request i.
experiment(i) ==
    /\ phase = "listening"
    /\ requests[i].st = "sent"
    /\ requests[i].route = "experiment"
    /\ responses' = [responses EXCEPT ![i] = experimentResponse(requests[i].body)]
    /\ requests' = [requests EXCEPT ![i].st = "done"]
    /\ UNCHANGED <<intSize, dirErr, entries, payloads, phase>>
    /\ UNCHANGED toolVars

\* The handler of GET /health runs for request i.
healthCheck(i) ==
    /\ phase = "listening"
    /\ requests[i].st = "sent"
    /\ requests[i].route = "health"
    /\ responses' = [responses EXCEPT ![i] = healthCheckResponse]
    /\ requests' = [requests EXCEPT ![i].st = "done"]
    /\ UNCHANGED <<intSize, dirErr, entries, payloads, phase>>
    /\ UNCHANGED toolVars

\* ------------------------------------------------ the server's connections
\* fiber.Config of main: the time limits the server puts on each connection,
\* as the configuration documents them.  Time is counted in seconds; a
\* response is written in chunks, each taken when the client reads it.

\* ReadTimeout: 5 * time.Second
ReadTimeout == 5

\* IdleTimeout: 30 * time.Second
IdleTimeout == 30

\* A configuration whose write limit was given the idle limit's value.
WriteTimeoutAsIdle == IdleTimeout

\* WriteTimeout: 10 * time.Second
WriteTimeout == 10

Conns == 1..MaxConns

\* The sizes of a response, in chunks.
Chunks == 1..MaxChunks

\* A keep-alive connection waiting for its next request.
IdleConn == [st |-> "idle", left |-> 0, timer |-> 0]

\* A connection the server closed with left chunks of a response unsent.
ClosedConn(left) == [st |-> "closed", left |-> left, timer |-> 0]

\* The limit on the time a connection may stay in state st.
Deadline(st) ==
    CASE st = "idle" -> IdleTimeout
      [] st = "reading" -> ReadTimeout
      [] st = "writing" -> WriteTimeout

\* The first bytes of a request arrive on connection c.
arrive(c) ==
    /\ conns[c].st = "idle"
    /\ conns' = [conns EXCEPT ![c] = [st |-> "reading", left |-> 0, timer |-> 0]]
    /\ UNCHANGED <<serverVars, pctVars, genVars, verifierVars, readerVars>>

\* The request on connection c is read in full and its handler returns a
\* response of n chunks, which the server starts to write.
respond(c, n) ==
    /\ conns[c].st = "reading"
    /\ conns' = [conns EXCEPT ![c] = [st |-> "writing", left |-> n, timer |-> 0]]
    /\ UNCHANGED <<serverVars, pctVars, genVars, verifierVars, readerVars>>

\* The client of connection c takes the next chunk of the response; after
\* the last one the connection waits for the next request.
transmit(c) ==
    /\ conns[c].st = "writing"
    /\ conns' = [conns EXCEPT ![c] =
                   IF conns[c].left = 1
                   THEN IdleConn
                   ELSE [conns[c] EXCEPT !.left = conns[c].left - 1]]
    /\ UNCHANGED <<serverVars, pctVars, genVars, verifierVars, readerVars>>

\* The limit of connection c's state is reached: the server closes it.
deadline(c) ==
    /\ conns[c].st # "closed"
    /\ conns[c].timer >= Deadline(conns[c].st)
    /\ conns' = [conns EXCEPT ![c] = ClosedConn(conns[c].left)]
    /\ UNCHANGED <<serverVars, pctVars, genVars, verifierVars, readerVars>>

\* One second passes on every open connection; no second passes while a
\* connection stands at its limit.
tick ==
    /\ \E c \in Conns : conns[c].st # "closed"
    /\ \A c \in Conns :
          conns[c].st # "closed" => conns[c].timer < Deadline(conns[c].st)
    /\ conns' = [c \in Conns |->
                   IF conns[c].st = "closed"
                   THEN conns[c]
                   ELSE [conns[c] EXCEPT !.timer = conns[c].timer + 1]]
    /\ UNCHANGED <<serverVars, pctVars, genVars, verifierVars, readerVars>>

\* ------------------------------------------------------------- percentiles
\* calculatePercentile multiplies in float64.  A natural is a sequence of
\* 16-bit limbs, least significant first, so that 53-bit significands are
\* exact; a float64 is a significand m of at most 53 bits with an exponent
\* e, standing for m * 2^e.

\* The natural a sequence of limbs stands for (for those int can hold).
RECURSIVE ValueOf(_)
ValueOf(limbs) ==
    IF limbs = <<>> THEN 0 ELSE Head(limbs) + Half * ValueOf(Tail(limbs))

\* Bit j (from 1, the least significant) of a natural.
Bit(limbs, j) ==
    IF j < 1 \/ j > 16 * Len(limbs) THEN 0
    ELSE (limbs[((j - 1) \div 16) + 1] \div (2 ^ ((j - 1) % 16))) % 2

\* The number of bits of a natural: the place of its leading 1.
BitLength(limbs) ==
    IF \A j \in 1..(16 * Len(limbs)) : Bit(limbs, j) = 0 THEN 0
    ELSE CHOOSE j \in 1..(16 * Len(limbs)) :
            /\ Bit(limbs, j) = 1
            /\ \A k \in (j + 1)..(16 * Len(limbs)) : Bit(limbs, k) = 0

\* The 16 bits of a natural from bit j on, as a limb.
RECURSIVE LimbAt(_, _, _)
LimbAt(limbs, j, k) ==
    IF k = 16 THEN 0
    ELSE Bit(limbs, j + k) * (2 ^ k) + LimbAt(limbs, j, k + 1)

\* The natural divided by 2^s, the fraction dropped.
ShiftRight(limbs, s) ==
    [i \in 1..Len(limbs) |-> LimbAt(limbs, s + 16 * (i - 1) + 1, 0)]

\* limbs + 1
RECURSIVE Increment(_)
Increment(limbs) ==
    IF limbs = <<>> THEN <<1>>
    ELSE IF Head(limbs) + 1 < Half THEN <<Head(limbs) + 1>> \o Tail(limbs)
    ELSE <<0>> \o Increment(Tail(limbs))

\* n * limbs + carry, for a natural n below 2^15.
RECURSIVE MulLimbs(_, _, _)
MulLimbs(n, limbs, carry) ==
    IF limbs = <<>> THEN IF carry = 0 THEN <<>> ELSE <<carry>>
    ELSE LET t == n * Head(limbs) + carry
         IN  <<t % Half>> \o MulLimbs(n, Tail(limbs), t \div Half)

\* Long division of a natural by d, 0 < d < 2^15, from the leading limb
\* down: the quotient q and the remainder r.
RECURSIVE DivLimbs(_, _)
DivLimbs(limbs, d) ==
    IF limbs = <<>> THEN [q |-> <<>>, r |-> 0]
    ELSE LET upper == DivLimbs(Tail(limbs), d)
             t == upper.r * Half + Head(limbs)
         IN  [q |-> <<t \div d>> \o upper.q, r |-> t % d]

\* The float64 nearest to an exact m * 2^e (ties to the even significand).
RoundFloat64(m, e) ==
    LET s == BitLength(m) - 53
    IN  IF s <= 0 THEN [m |-> m, e |-> e]
        ELSE LET q == ShiftRight(m, s)
                 above == Bit(m, s) = 1
                          /\ (Bit(m, s + 1) = 1
                              \/ \E j \in 1..(s - 1) : Bit(m, j) = 1)
             IN  [m |-> IF above THEN Increment(q) ELSE q, e |-> e + s]

\* The float64 constant written as the decimal num/den, for a value in
\* [1/2, 1): the quotient num * 2^53 / den has 53 bits, and is rounded to
\* the nearest, ties to even.
Float64Of(num, den) ==
    LET d == DivLimbs(<<0, 0, 0, num * (2 ^ 5)>>, den)
        above == 2 * d.r > den \/ (2 * d.r = den /\ Bit(d.q, 1) = 1)
    IN  RoundFloat64(IF above THEN Increment(d.q) ELSE d.q, 0 - 53)

\* float64(n) * x for a natural n below 2^15: the exact product, rounded.
MulFloat64(n, x) == RoundFloat64(MulLimbs(n, x.m, 0), x.e)

\* A conversion to int that rounds to the nearest integer.
IntOfRounded(x) ==
    IF x.e >= 0 THEN ValueOf(x.m) * (2 ^ x.e)
    ELSE ValueOf(ShiftRight(x.m, 0 - x.e)) + Bit(x.m, 0 - x.e)

\* int(x) for a float64 x >= 0 within int's range: the fraction is dropped.
IntOf(x) ==
    IF x.e >= 0 THEN ValueOf(x.m) * (2 ^ x.e)
    ELSE ValueOf(ShiftRight(x.m, 0 - x.e))

\* The percentiles printResults asks for: 0.50, 0.90, 0.99, as written.
Percentiles ==
    {[num |-> 50, den |-> 100], [num |-> 90, den |-> 100],
     [num |-> 99, den |-> 100]}

\* func calculatePercentile(sortedLatencies []int64, percentile float64)
\* int64.  An index out of range is a run-time panic.
calculatePercentile(sorted, p) ==
    IF Len(sorted) = 0 THEN [panic |-> FALSE, value |-> 0]
    ELSE LET product == MulFloat64(Len(sorted), Float64Of(p.num, p.den))
             index == IF IntOf(product) >= Len(sorted)
                      THEN Len(sorted) - 1
                      ELSE IntOf(product)
         IN  IF index < 0 \/ index >= Len(sorted)
             THEN [panic |-> TRUE, value |-> 0]
             ELSE [panic |-> FALSE, value |-> sorted[index + 1]]

\* The latencies of the bounded inputs, in milliseconds.
LatencyValues == {10, 20, 30, 40, 50}

\* The ascending sequences of at most n latencies.
RECURSIVE Ascending(_)
Ascending(n) ==
    IF n = 0 THEN {<<>>}
    ELSE LET shorter == Ascending(n - 1)
         IN  shorter \cup
             UNION {{Append(s, v) :
                        v \in {w \in LatencyValues :
                                 Len(s) = 0 \/ s[Len(s)] <= w}} :
                    s \in {t \in shorter : Len(t) = n - 1}}

\* 10, 20, ..., 10 * n: an ascending collection of n latencies.
Ramp(n) == [i \in 1..n |-> 10 * i]

\* The lengths at which 0.90 * n or 0.99 * n is an integer.
RampLengths == {10, 20, 100, 200}

\* What the statistics hand to calculatePercentile: sorted collections.
SortedInputs == Ascending(MaxSamples) \cup {Ramp(n) : n \in RampLengths}

NoResult == [panic |-> FALSE, value |-> 0 - 1]

\* A call of calculatePercentile on the input drawn.
calculate ==
    /\ pctResult = NoResult
    /\ pctResult' = calculatePercentile(sortedLatencies, percentile)
    /\ UNCHANGED <<sortedLatencies, percentile>>
    /\ UNCHANGED <<serverVars, connVars, genVars, verifierVars, readerVars>>

\* ------------------------------------------------------ the load generator
\* cmd/loadtest/main.go: main, runLoadTest, the client goroutines, the
\* progress monitor and printResults.  Every access to the shared Stats, to
\* the channel ctx and to the WaitGroup is one step of the goroutine making
\* it.

\* The goroutines runLoadTest may start: fast clients first, slow after.
FastIds == 1..MaxClients
SlowIds == (MaxClients + 1)..(2 * MaxClients)
Clients == FastIds \cup SlowIds

\* The values of -mode: "normal" stands for every value but "saturation".
Modes == {"normal", "saturation"}

\* The command lines of a run: -fast, -slow, -requests, -hog-test, -mode.
Flags ==
    {f \in [fast : 0..MaxClients, slow : 0..MaxClients,
            requests : 0..MaxPerClient, hogTest : BOOLEAN, mode : Modes] :
        f.fast + f.slow <= MaxClients}

NoFlags ==
    [fast |-> 0, slow |-> 0, requests |-> 0, hogTest |-> FALSE,
     mode |-> "normal"]

\* The defaults of -slow and -fast, and the number of slow clients the
\* saturation test puts in the place of the default.
DefaultSlow == 5
DefaultFast == 10
HogSlowClients == 50

\* The TestConfig main builds from the flags: -mode saturation sets
\* hogTest; the saturation test replaces the default of -slow; a run that
\* is no saturation test gets no slow clients.
mainConfig(f) ==
    LET hogTest == f.hogTest \/ f.mode = "saturation"
    IN  [FastClients |->
             IF hogTest /\ f.fast = DefaultFast THEN DefaultFast ELSE f.fast,
         SlowClients |->
             IF hogTest
             THEN IF f.slow = DefaultSlow THEN HogSlowClients ELSE f.slow
             ELSE 0,
         RequestsPerClient |-> f.requests,
         ConnectionHogTest |-> hogTest]

NoConfig ==
    [FastClients |-> 0, SlowClients |-> 0, RequestsPerClient |-> 0,
     ConnectionHogTest |-> FALSE]

\* &Stats{...}: the counters at zero, the mutex free (0), no samples.
NewStats ==
    [totalRequests |-> 0, successRequests |-> 0, failedRequests |-> 0,
     fastRequests |-> 0, slowRequests |-> 0, latenciesMutex |-> 0,
     fastLatencies |-> <<>>, slowLatencies |-> <<>>]

\* A goroutine not started.
NoClient ==
    [pc |-> "idle", i |-> 0, outcome |-> "none", latency |-> 0, seen |-> 0]

\* Nothing loaded, nothing printed.
NoReport ==
    [printed |-> FALSE, totalRequests |-> 0, successRequests |-> 0,
     failedRequests |-> 0, fastRequests |-> 0, slowRequests |-> 0,
     seconds |-> 0,
     overall |-> [min |-> 0, max |-> 0, avg |-> 0, p50 |-> 0, p90 |-> 0,
                  p99 |-> 0],
     fast |-> [min |-> 0, max |-> 0, avg |-> 0, p50 |-> 0, p90 |-> 0,
               p99 |-> 0],
     slow |-> [min |-> 0, max |-> 0, avg |-> 0, p50 |-> 0, p90 |-> 0,
               p99 |-> 0],
     rps |-> [n |-> 0, d |-> 0], fastRps |-> [n |-> 0, d |-> 0],
     slowRps |-> [n |-> 0, d |-> 0], fastShown |-> FALSE,
     slowShown |-> FALSE]

\* The latency measured for a request, in milliseconds, by class.
Latencies(c) == IF c \in FastIds THEN {20} ELSE {2000}

\* How a POST ends: client.Post fails, the status is not 200, reading the
\* body fails, or the body is read to its end.
Outcomes == {"error", "status", "truncated", "ok"}

\* The elapsed times of a run, in seconds.
Durations == 1..MaxSeconds

\* The clients of a class already started.
Started(ids) == {c \in ids : clients[c].pc # "idle"}

\* A run that starts its clients as the normal mode does, whatever the mode.
NextStartNormalOrder(cfg, fast, slow, warm) ==
    IF fast < cfg.FastClients THEN "fast"
    ELSE IF slow < cfg.SlowClients THEN "slow"
    ELSE "none"

\* What runLoadTest does next while it starts goroutines, with fast and
\* slow of them started: start one of a class, sleep the warm-up, or go on.
NextStart(cfg, fast, slow, warm) ==
    IF cfg.ConnectionHogTest
    THEN IF slow < cfg.SlowClients THEN "slow"
         ELSE IF ~warm THEN "warmup"
         ELSE IF fast < cfg.FastClients THEN "fast"
         ELSE "none"
    ELSE IF fast < cfg.FastClients THEN "fast"
         ELSE IF slow < cfg.SlowClients THEN "slow"
         ELSE "none"

\* A select that takes its default case although ctx is closed.
SelectCtxDefault(channel) == "default"

\* select { case <-ctx: ...; default: ... }: receiving from a closed channel
\* is ready, and default is taken only when no other case is.
SelectCtx(channel) == IF channel = "closed" THEN "return" ELSE "default"

\* A Wait that returns at once.
WaitReturnsAtOnce(counter) == TRUE

\* wg.Wait() returns when the counter is zero.
WaitReturns(counter) == counter = 0

\* A Lock that a second goroutine gets while the mutex is held.
CanLockHeld(mutex) == TRUE

\* latenciesMutex.Lock() goes on when no goroutine holds the mutex.
CanLock(mutex) == mutex = 0

\* A request function without its else branch for a status other than 200.
CountedDroppingStatus(outcome) ==
    [success |-> IF outcome = "ok" THEN 1 ELSE 0,
     failed |-> IF outcome \in {"error", "truncated"} THEN 1 ELSE 0]

\* What makeFastRequest and makeSlowRequest add to successRequests and to
\* failedRequests for an outcome.
Counted(outcome) ==
    [success |-> IF outcome = "ok" THEN 1 ELSE 0,
     failed |-> IF outcome = "ok" THEN 0 ELSE 1]

\* The slice the samples of client c go to.
LatenciesOf(st, c) ==
    IF c \in FastIds THEN st.fastLatencies ELSE st.slowLatencies

\* Insertion of v into an ascending sequence of integers.
RECURSIVE InsertInt(_, _)
InsertInt(v, s) ==
    IF s = <<>> THEN <<v>>
    ELSE IF v < Head(s) THEN <<v>> \o s
    ELSE <<Head(s)>> \o InsertInt(v, Tail(s))

\* sort.Slice(s, func(i, j int) bool { return s[i] < s[j] })
RECURSIVE SortInts(_)
SortInts(s) ==
    IF s = <<>> THEN <<>> ELSE InsertInt(Head(s), SortInts(Tail(s)))

RECURSIVE SumInts(_)
SumInts(s) == IF s = <<>> THEN 0 ELSE Head(s) + SumInts(Tail(s))

\* One block of statistics of printResults over a sorted collection: all
\* zero for an empty one.
LatencyStats(sorted) ==
    IF Len(sorted) = 0
    THEN [min |-> 0, max |-> 0, avg |-> 0, p50 |-> 0, p90 |-> 0, p99 |-> 0]
    ELSE [min |-> sorted[1],
          max |-> sorted[Len(sorted)],
          avg |-> SumInts(sorted) \div Len(sorted),
          p50 |-> calculatePercentile(sorted, [num |-> 50, den |-> 100]).value,
          p90 |-> calculatePercentile(sorted, [num |-> 90, den |-> 100]).value,
          p99 |-> calculatePercentile(sorted, [num |-> 99, den |-> 100]).value]

\* float64(count) / duration.Seconds(), kept as the two numbers.
Rate(count, seconds) == [n |-> count, d |-> seconds]

\* What printResults prints from the counters it loaded (kept in r), the
\* samples and the elapsed time.
Results(r, st, seconds) ==
    LET fastLatencies == SortInts(st.fastLatencies)
        slowLatencies == SortInts(st.slowLatencies)
        allLatencies == SortInts(fastLatencies \o slowLatencies)
    IN  [r EXCEPT
           !.printed = TRUE,
           !.seconds = seconds,
           !.overall = LatencyStats(allLatencies),
           !.fast = LatencyStats(fastLatencies),
           !.slow = LatencyStats(slowLatencies),
           !.rps = Rate(r.successRequests, seconds),
           !.fastRps = Rate(r.fastRequests, seconds),
           !.slowRps = Rate(r.slowRequests, seconds),
           !.fastShown = Len(fastLatencies) > 0,
           !.slowShown = Len(slowLatencies) > 0]

\* The five counters, as monitorProgress and printResults load them.
Counters(st) ==
    [totalRequests |-> st.totalRequests,
     successRequests |-> st.successRequests,
     failedRequests |-> st.failedRequests,
     fastRequests |-> st.fastRequests,
     slowRequests |-> st.slowRequests]

\* The configurations of a run: every TestConfig main can hand to
\* runLoadTest.
Configs == {mainConfig(f) : f \in Flags}

\* main parses the command line, builds the TestConfig and prints it.
parseFlags ==
    /\ mainPc = "flags"
    /\ config' = mainConfig(flags)
    /\ mainPc' = "health"
    /\ UNCHANGED <<flags, stats, clients, ctx, wg, warmed, monitor, duration,
                   report>>
    /\ UNCHANGED <<serverVars, connVars, pctVars, verifierVars, readerVars>>

\* The health check fails and main returns, or it succeeds
\* and main makes the Stats, starts the monitor, and enters runLoadTest,
\* which makes ctx.
checkHealth ==
    /\ mainPc = "health"
    /\ \E ok \in BOOLEAN :
          IF ok
          THEN /\ mainPc' = "start"
               /\ stats' = NewStats
               /\ monitor' = "running"
               /\ ctx' = "open"
          ELSE /\ mainPc' = "exit"
               /\ UNCHANGED <<stats, monitor, ctx>>
    /\ UNCHANGED <<flags, config, clients, wg, warmed, duration, report>>
    /\ UNCHANGED <<serverVars, connVars, pctVars, verifierVars, readerVars>>

\* runLoadTest starts the next goroutine: wg.Add(1); go func ...
startClient ==
    /\ mainPc = "start"
    /\ LET fast == Cardinality(Started(FastIds))
           slow == Cardinality(Started(SlowIds))
           class == NextStart(config, fast, slow, warmed)
           c == IF class = "fast" THEN fast + 1 ELSE MaxClients + slow + 1
       IN  /\ class \in {"fast", "slow"}
           /\ wg' = wg + 1
           /\ clients' = [clients EXCEPT ![c].pc = "top"]
    /\ UNCHANGED <<flags, config, stats, ctx, mainPc, warmed, monitor, duration,
                   report>>
    /\ UNCHANGED <<serverVars, connVars, pctVars, verifierVars, readerVars>>

\* time.Sleep(2 * time.Second) of the saturation mode returns.
warmUp ==
    /\ mainPc = "start"
    /\ NextStart(config, Cardinality(Started(FastIds)),
                 Cardinality(Started(SlowIds)), warmed) = "warmup"
    /\ warmed' = TRUE
    /\ UNCHANGED <<flags, config, stats, clients, ctx, wg, mainPc, monitor, duration,
                   report>>
    /\ UNCHANGED <<serverVars, connVars, pctVars, verifierVars, readerVars>>

\* time.Sleep(config.TestDuration) returns; close(ctx).
closeCtx ==
    /\ mainPc = "start"
    /\ NextStart(config, Cardinality(Started(FastIds)),
                 Cardinality(Started(SlowIds)), warmed) = "none"
    /\ ctx' = "closed"
    /\ mainPc' = "wait"
    /\ UNCHANGED <<flags, config, stats, clients, wg, warmed, monitor, duration,
                   report>>
    /\ UNCHANGED <<serverVars, connVars, pctVars, verifierVars, readerVars>>

\* wg.Wait() returns, runLoadTest returns and main takes endTime.
wait ==
    /\ mainPc = "wait"
    /\ WaitReturns(wg)
    /\ mainPc' = "stop"
    /\ duration' \in Durations
    /\ UNCHANGED <<flags, config, stats, clients, ctx, wg, warmed, monitor, report>>
    /\ UNCHANGED <<serverVars, connVars, pctVars, verifierVars, readerVars>>

\* stopMonitor <- true meets the monitor's case <-stop; main sleeps 100 ms.
stopMonitor ==
    /\ mainPc = "stop"
    /\ monitor = "running"
    /\ monitor' = "stopped"
    /\ mainPc' = "print"
    /\ UNCHANGED <<flags, config, stats, clients, ctx, wg, warmed, duration, report>>
    /\ UNCHANGED <<serverVars, connVars, pctVars, verifierVars, readerVars>>

\* printResults loads the five counters.
printResultsLoad ==
    /\ mainPc = "print"
    /\ report' = [report EXCEPT
                    !.totalRequests = stats.totalRequests,
                    !.successRequests = stats.successRequests,
                    !.failedRequests = stats.failedRequests,
                    !.fastRequests = stats.fastRequests,
                    !.slowRequests = stats.slowRequests]
    /\ mainPc' = "copy"
    /\ UNCHANGED <<flags, config, stats, clients, ctx, wg, warmed, monitor, duration>>
    /\ UNCHANGED <<serverVars, connVars, pctVars, verifierVars, readerVars>>

\* printResults copies the samples under the mutex, sorts, computes and
\* prints.
printResultsCopy ==
    /\ mainPc = "copy"
    /\ CanLock(stats.latenciesMutex)
    /\ report' = Results(report, stats, duration)
    /\ mainPc' = "done"
    /\ UNCHANGED <<flags, config, stats, clients, ctx, wg, warmed, monitor, duration>>
    /\ UNCHANGED <<serverVars, connVars, pctVars, verifierVars, readerVars>>

\* case <-ticker.C of monitorProgress: the five counters are loaded and a
\* progress line is printed; nothing is stored.
monitorProgress ==
    /\ monitor = "running"
    /\ UNCHANGED <<flags, config, stats, clients, ctx, wg, mainPc, warmed, monitor,
                   duration, report>>
    /\ UNCHANGED <<serverVars, connVars, pctVars, verifierVars, readerVars>>

\* A client whose loop runs while i <= config.RequestsPerClient.
selectCtxOneMore(c) ==
    /\ clients[c].pc = "top"
    /\ IF clients[c].i > config.RequestsPerClient
          \/ SelectCtx(ctx) = "return"
       THEN /\ clients' = [clients EXCEPT ![c].pc = "done"]
            /\ wg' = wg - 1
       ELSE /\ clients' = [clients EXCEPT ![c].pc = "request"]
            /\ wg' = wg
    /\ UNCHANGED <<flags, config, stats, ctx, mainPc, warmed, monitor,
                   duration, report>>
    /\ UNCHANGED <<serverVars, connVars, pctVars, verifierVars, readerVars>>

\* A client goroutine without its deferred wg.Done().
selectCtxWithoutDone(c) ==
    /\ clients[c].pc = "top"
    /\ IF clients[c].i >= config.RequestsPerClient
          \/ SelectCtx(ctx) = "return"
       THEN clients' = [clients EXCEPT ![c].pc = "done"]
       ELSE clients' = [clients EXCEPT ![c].pc = "request"]
    /\ UNCHANGED <<flags, config, stats, ctx, wg, mainPc, warmed, monitor,
                   duration, report>>
    /\ UNCHANGED <<serverVars, connVars, pctVars, verifierVars, readerVars>>

\* Client c at the top of its loop: the loop ends, or the select returns on
\* a closed ctx (the deferred wg.Done() runs), or the default case starts a
\* request.
selectCtx(c) ==
    /\ clients[c].pc = "top"
    /\ IF clients[c].i >= config.RequestsPerClient
          \/ SelectCtx(ctx) = "return"
       THEN /\ clients' = [clients EXCEPT ![c].pc = "done"]
            /\ wg' = wg - 1
       ELSE /\ clients' = [clients EXCEPT ![c].pc = "request"]
            /\ wg' = wg
    /\ UNCHANGED <<flags, config, stats, ctx, mainPc, warmed, monitor, duration,
                   report>>
    /\ UNCHANGED <<serverVars, connVars, pctVars, verifierVars, readerVars>>

\* stats.totalRequests.Add(1) at the head of makeFastRequest/makeSlowRequest;
\* the POST is sent.
countTotal(c) ==
    /\ clients[c].pc = "request"
    /\ stats' = [stats EXCEPT !.totalRequests = stats.totalRequests + 1]
    /\ clients' = [clients EXCEPT ![c].pc = "post"]
    /\ UNCHANGED <<flags, config, ctx, wg, mainPc, warmed, monitor, duration, report>>
    /\ UNCHANGED <<serverVars, connVars, pctVars, verifierVars, readerVars>>

\* The POST of client c ends with an outcome after latency milliseconds,
\* and the request is counted successful or failed.
post(c, outcome, latency) ==
    /\ clients[c].pc = "post"
    /\ stats' = [stats EXCEPT
                   !.successRequests =
                       stats.successRequests + Counted(outcome).success,
                   !.failedRequests =
                       stats.failedRequests + Counted(outcome).failed]
    /\ clients' = [clients EXCEPT ![c] =
                     IF outcome = "ok"
                     THEN [clients[c] EXCEPT !.pc = "lock",
                                             !.outcome = outcome,
                                             !.latency = latency]
                     ELSE [clients[c] EXCEPT !.pc = "counted",
                                             !.outcome = outcome]]
    /\ UNCHANGED <<flags, config, ctx, wg, mainPc, warmed, monitor, duration, report>>
    /\ UNCHANGED <<serverVars, connVars, pctVars, verifierVars, readerVars>>

\* stats.latenciesMutex.Lock(); append starts by reading the slice.
lock(c) ==
    /\ clients[c].pc = "lock"
    /\ CanLock(stats.latenciesMutex)
    /\ stats' = [stats EXCEPT !.latenciesMutex = c]
    /\ clients' = [clients EXCEPT ![c].pc = "append",
                                  ![c].seen = Len(LatenciesOf(stats, c))]
    /\ UNCHANGED <<flags, config, ctx, wg, mainPc, warmed, monitor, duration, report>>
    /\ UNCHANGED <<serverVars, connVars, pctVars, verifierVars, readerVars>>

\* append stores the sample after the elements it read and the slice is
\* assigned; stats.latenciesMutex.Unlock().
appendUnlock(c) ==
    /\ clients[c].pc = "append"
    /\ LET grown == Append(SubSeq(LatenciesOf(stats, c), 1, clients[c].seen),
                           clients[c].latency)
       IN  stats' = IF c \in FastIds
                    THEN [stats EXCEPT !.fastLatencies = grown,
                                       !.latenciesMutex = 0]
                    ELSE [stats EXCEPT !.slowLatencies = grown,
                                       !.latenciesMutex = 0]
    /\ clients' = [clients EXCEPT ![c].pc = "counted"]
    /\ UNCHANGED <<flags, config, ctx, wg, mainPc, warmed, monitor, duration, report>>
    /\ UNCHANGED <<serverVars, connVars, pctVars, verifierVars, readerVars>>

\* Back in the loop of client c: stats.fastRequests.Add(1) or
\* stats.slowRequests.Add(1), the sleep between requests, i++.
countClass(c) ==
    /\ clients[c].pc = "counted"
    /\ stats' = IF c \in FastIds
                THEN [stats EXCEPT !.fastRequests = stats.fastRequests + 1]
                ELSE [stats EXCEPT !.slowRequests = stats.slowRequests + 1]
    /\ clients' = [clients EXCEPT ![c] =
                     [pc |-> "top", i |-> clients[c].i + 1, outcome |-> "none",
                      latency |-> 0, seen |-> 0]]
    /\ UNCHANGED <<flags, config, ctx, wg, mainPc, warmed, monitor, duration, report>>
    /\ UNCHANGED <<serverVars, connVars, pctVars, verifierVars, readerVars>>

\* ------------------------------------------------------------ the verifier
\* cmd/allocationtest/main.go: main, runAllocationTest with its worker pool
\* and progress monitor, makeRequest and analyzeResults.  Every access to
\* the work channel, to an atomic counter, to the mutex mu and to the
\* WaitGroup is one step of the goroutine making it.

\* The synthetic users: userIDs[i - 1], the UUIDs main generates.
Users == 1..MaxWork

\* The loop variable i of the loop that starts the workers; the last value
\* is the bound the loop stops at.
Workers == 0..MaxWorkers

\* -users, -requests and -concurrency, with at most MaxWork work items.
AllocationTests ==
    {t \in [numUsers : 0..MaxWork, requestsPerUser : 0..MaxWork,
            concurrency : 0..MaxWorkers] :
        t.numUsers * t.requestsPerUser <= MaxWork}

NoAllocationTest == [numUsers |-> 0, requestsPerUser |-> 0, concurrency |-> 0]

\* The work channel after the filling loops: requestsPerUser items for the
\* first user, then for the second, and so on.
RECURSIVE FillWorkChan(_, _)
FillWorkChan(numUsers, requestsPerUser) ==
    IF numUsers = 0 THEN <<>>
    ELSE FillWorkChan(numUsers - 1, requestsPerUser)
             \o [i \in 1..requestsPerUser |-> numUsers]

\* The variants of the Request Service the verifier is run against: two
\* files with a "payloads" array each, so two variants whose payload is an
\* object and two whose payload is a string.
VerifiedStore ==
    BuildStore(<<File(NameA, DocPayloads2), File(NameB, DocPayloads2)>>)

\* What a POST of the verifier comes back with: err is the error of
\* client.Post, readable whether io.ReadAll succeeds.
TransportError ==
    [err |-> TRUE, status |-> 0, readable |-> FALSE, body |-> BadText]
Answer(status, body) ==
    [err |-> FALSE, status |-> status, readable |-> TRUE, body |-> body]
Truncated(status, body) ==
    [err |-> FALSE, status |-> status, readable |-> FALSE, body |-> body]

\* The 200 responses of the Request Service, one per variant of the store.
ServiceAnswers ==
    {Answer(200, ResponseJSON(VerifiedStore[i])) : i \in DOMAIN VerifiedStore}

\* The answers of the model: no answer, a 400 of the Request Service, a 200
\* whose body breaks off, a 200 whose body is no JSON, and the Request
\* Service's 200 responses.
Answers ==
    {TransportError,
     Answer(400, ErrorResponse(400, UserIdIsRequired).body),
     Truncated(200, BadText),
     Answer(200, BadText)}
        \cup ServiceAnswers

NoAnswer == [err |-> FALSE, status |-> 0, readable |-> FALSE, body |-> BadText]

\* The string field of Response tagged key after the members were decoded
\* in the order written: a string member sets it, a null member leaves it.
RECURSIVE FieldString(_, _, _)
FieldString(members, key, field) ==
    IF members = <<>> THEN field
    ELSE FieldString(Tail(members), key,
                     IF Head(members).s = key /\ Head(members).e[1].t = "str"
                     THEN Head(members).e[1].s
                     ELSE field)

\* Whether a member tagged key holds a value a Go string cannot take.
FieldMismatch(members, key) ==
    \E i \in DOMAIN members :
        members[i].s = key /\ members[i].e[1].t \notin {"str", "null"}

\* json.Unmarshal(body, &response) with response a Response of three string
\* fields: a text that is no JSON is a syntax error, null leaves the zero
\* value, another top-level value or a member of another type than string
\* or null for one of the three fields is an UnmarshalTypeError (returned
\* after the other members were decoded).
UnmarshalResponse(body) ==
    IF body.syntax = "bad" THEN [err |-> TRUE, SelectedPayloadName |-> <<>>]
    ELSE IF body.v.t = "null" THEN [err |-> FALSE, SelectedPayloadName |-> <<>>]
    ELSE IF body.v.t # "obj" THEN [err |-> TRUE, SelectedPayloadName |-> <<>>]
    ELSE [err |-> FieldMismatch(body.v.e, ExperimentIdKey)
                    \/ FieldMismatch(body.v.e, SelectedPayloadNameKey)
                    \/ FieldMismatch(body.v.e, PayloadKey),
          SelectedPayloadName |->
              FieldString(body.v.e, SelectedPayloadNameKey, <<>>)]

\* func makeRequest(client, url, userID) (string, error), for the answer
\* the POST comes back with.
makeRequest(resp) ==
    IF resp.err THEN [payload |-> <<>>, err |-> TRUE]
    ELSE IF resp.status # 200 THEN [payload |-> <<>>, err |-> TRUE]
    ELSE IF ~resp.readable THEN [payload |-> <<>>, err |-> TRUE]
    ELSE LET response == UnmarshalResponse(resp.body)
         IN  IF response.err THEN [payload |-> <<>>, err |-> TRUE]
             ELSE [payload |-> response.SelectedPayloadName, err |-> FALSE]

\* The orders a range over the map m may visit its keys in.
Orders(m) ==
    {o \in [1..Cardinality(DOMAIN m) -> DOMAIN m] :
        \A i, j \in DOMAIN o : i # j => o[i] # o[j]}

\* The sum of the counts of a map.
RECURSIVE SumCounts(_)
SumCounts(m) ==
    IF DOMAIN m = {} THEN 0
    ELSE LET k == CHOOSE x \in DOMAIN m : TRUE
         IN  m[k] + SumCounts([x \in DOMAIN m \ {k} |-> m[x]])

\* A check that takes every user for consistent.
IsConsistentAlways(counts) == TRUE

\* consistent := len(payloads) == 1
IsConsistent(counts) == Cardinality(DOMAIN counts) = 1

\* The loop that finds the primary payload, over the keys in the order the
\* range visits them: a later name replaces the primary only with a
\* greater count.
RECURSIVE PrimaryPayload(_, _, _, _)
PrimaryPayload(counts, order, maxCount, primaryPayload) ==
    IF order = <<>> THEN primaryPayload
    ELSE IF counts[Head(order)] > maxCount
         THEN PrimaryPayload(counts, Tail(order), counts[Head(order)],
                             Head(order))
         ELSE PrimaryPayload(counts, Tail(order), maxCount, primaryPayload)

\* results.PayloadDistribution[primaryPayload]++ for every user.
Distribution(allocations) ==
    [name \in {allocations[u].PayloadName : u \in DOMAIN allocations} |->
        Cardinality({u \in DOMAIN allocations :
                        allocations[u].PayloadName = name})]

\* No analysis was made.
NoResults ==
    [analyzed |-> FALSE, TotalUsers |-> 0, TotalRequests |-> 0,
     SuccessfulRequests |-> 0, FailedRequests |-> 0, ConsistentUsers |-> 0,
     InconsistentUsers |-> 0, PayloadDistribution |-> <<>>,
     UserAllocations |-> <<>>, InconsistentDetails |-> <<>>,
     AllocationConsistency |-> [n |-> 0, d |-> 0]]

\* func analyzeResults(userPayloads, ..., totalReqs, successReqs,
\* failedReqs) TestResults, with the orders the two ranges over each user's
\* map take (primary for the loop that finds the primary payload, listed for
\* the loop that lists the names).  UserAllocations and InconsistentDetails
\* are kept by user: a detail is the names with their counts in the order
\* listed.
AnalyzeResults(observed, primary, listed, totalReqs, successReqs, failedReqs) ==
    LET allocations ==
            [u \in DOMAIN observed |->
                [PayloadName |-> PrimaryPayload(observed[u], primary[u], 0, <<>>),
                 RequestCount |-> SumCounts(observed[u]),
                 Consistent |-> IsConsistent(observed[u])]]
        consistent == {u \in DOMAIN observed : allocations[u].Consistent}
    IN  [analyzed |-> TRUE,
         TotalUsers |-> Cardinality(DOMAIN observed),
         TotalRequests |-> totalReqs,
         SuccessfulRequests |-> successReqs,
         FailedRequests |-> failedReqs,
         ConsistentUsers |-> Cardinality(consistent),
         InconsistentUsers |-> Cardinality(DOMAIN observed \ consistent),
         PayloadDistribution |-> Distribution(allocations),
         UserAllocations |-> allocations,
         InconsistentDetails |->
             [u \in DOMAIN observed \ consistent |->
                 [i \in DOMAIN listed[u] |->
                     [payload |-> listed[u][i],
                      count |-> observed[u][listed[u][i]]]]],
         AllocationConsistency |->
             IF Cardinality(DOMAIN observed) > 0
             THEN [n |-> Cardinality(consistent) * 100,
                   d |-> Cardinality(DOMAIN observed)]
             ELSE [n |-> 0, d |-> 0]]

\* The orders of the ranges over every user's map.
RangeOrders(observed) ==
    {o \in [DOMAIN observed -> UNION {Orders(observed[u]) : u \in DOMAIN observed}] :
        \A u \in DOMAIN observed : o[u] \in Orders(observed[u])}

\* userPayloads[userID][payload]++, the inner map made when it is nil.
Observe(observed, userID, payload) ==
    LET old == IF userID \in DOMAIN observed THEN observed[userID] ELSE <<>>
        new == [name \in DOMAIN old \cup {payload} |->
                   IF name \in DOMAIN old
                   THEN old[name] + (IF name = payload THEN 1 ELSE 0)
                   ELSE 1]
    IN  [u \in DOMAIN observed \cup {userID} |->
            IF u = userID THEN new ELSE observed[u]]

\* A worker goroutine not started.
NoWorker ==
    [pc |-> "idle", userID |-> 0, resp |-> NoAnswer, payload |-> <<>>,
     err |-> FALSE]

\* A worker at the head of its loop, holding no work item.
AtRange == [NoWorker EXCEPT !.pc = "range"]

\* The workers started so far: the value of the loop variable i.
StartedWorkers == Cardinality({w \in Workers : workers[w].pc # "idle"})

\* A loop that starts one worker more than -concurrency says.
StartsAnotherInclusive(i, n) == i <= n

\* for i := 0; i < concurrency; i++
StartsAnother(i, n) == i < n

\* A worker that leaves its loop on a failed request (break for continue).
AfterFailureReturn == [pc |-> "done", wg |-> poolWg - 1]

\* if err != nil { failedRequests.Add(1); continue }: the worker goes back
\* to the head of its loop and the WaitGroup is left alone.
AfterFailure == [pc |-> "range", wg |-> poolWg]

\* main of the verifier: the health check fails and main exits, or main
\* generates the user IDs and runAllocationTest makes the map, fills the
\* work channel and closes it.
checkHealthAllocation ==
    /\ allocationPc = "health"
    /\ \E ok \in BOOLEAN :
          IF ok
          THEN /\ allocationPc' = "pool"
               /\ workChan' = FillWorkChan(allocationTest.numUsers,
                                           allocationTest.requestsPerUser)
          ELSE /\ allocationPc' = "exit"
               /\ workChan' = workChan
    /\ UNCHANGED <<allocationTest, userPayloads, mu, totalRequests,
                   successRequests, failedRequests, workers, poolWg, done,
                   results>>
    /\ UNCHANGED <<serverVars, connVars, pctVars, genVars, readerVars>>

\* wg.Add(1); go func() { ... }() for the next i.
startWorker ==
    /\ allocationPc = "pool"
    /\ StartsAnother(StartedWorkers, allocationTest.concurrency)
    /\ poolWg' = poolWg + 1
    /\ workers' = [workers EXCEPT ![StartedWorkers] = AtRange]
    /\ UNCHANGED <<allocationTest, workChan, userPayloads, mu, totalRequests,
                   successRequests, failedRequests, done, allocationPc,
                   results>>
    /\ UNCHANGED <<serverVars, connVars, pctVars, genVars, readerVars>>

\* The loop is over: done is made and the progress goroutine started.
startProgress ==
    /\ allocationPc = "pool"
    /\ ~StartsAnother(StartedWorkers, allocationTest.concurrency)
    /\ done' = "open"
    /\ allocationPc' = "wait"
    /\ UNCHANGED <<allocationTest, workChan, userPayloads, mu, totalRequests,
                   successRequests, failedRequests, workers, poolWg, results>>
    /\ UNCHANGED <<serverVars, connVars, pctVars, genVars, readerVars>>

\* case <-ticker.C of the progress goroutine: totalRequests is loaded and a
\* progress line printed; nothing is stored.
progress ==
    /\ done = "open"
    /\ UNCHANGED <<allocationTest, workChan, userPayloads, mu, totalRequests,
                   successRequests, failedRequests, workers, poolWg, done,
                   allocationPc, results>>
    /\ UNCHANGED <<serverVars, connVars, pctVars, genVars, readerVars>>

\* for w := range workChan: the worker takes the next item, or the channel
\* is closed and empty, the loop ends and the deferred wg.Done() runs.
receiveWork(w) ==
    /\ workers[w].pc = "range"
    /\ IF workChan = <<>>
       THEN /\ workers' = [workers EXCEPT ![w].pc = "done"]
            /\ poolWg' = poolWg - 1
            /\ workChan' = workChan
       ELSE /\ workers' = [workers EXCEPT ![w].pc = "count",
                                          ![w].userID = Head(workChan)]
            /\ workChan' = Tail(workChan)
            /\ poolWg' = poolWg
    /\ UNCHANGED <<allocationTest, userPayloads, mu, totalRequests,
                   successRequests, failedRequests, done, allocationPc,
                   results>>
    /\ UNCHANGED <<serverVars, connVars, pctVars, genVars, readerVars>>

\* totalRequests.Add(1); makeRequest is entered and the POST sent.
countRequest(w) ==
    /\ workers[w].pc = "count"
    /\ totalRequests' = totalRequests + 1
    /\ workers' = [workers EXCEPT ![w].pc = "post"]
    /\ UNCHANGED <<allocationTest, workChan, userPayloads, mu,
                   successRequests, failedRequests, poolWg, done, allocationPc,
                   results>>
    /\ UNCHANGED <<serverVars, connVars, pctVars, genVars, readerVars>>

\* The POST of worker w comes back with resp and makeRequest returns.
returnRequest(w, resp) ==
    /\ workers[w].pc = "post"
    /\ workers' = [workers EXCEPT ![w].pc = "returned",
                                  ![w].resp = resp,
                                  ![w].payload = makeRequest(resp).payload,
                                  ![w].err = makeRequest(resp).err]
    /\ UNCHANGED <<allocationTest, workChan, userPayloads, mu, totalRequests,
                   successRequests, failedRequests, poolWg, done, allocationPc,
                   results>>
    /\ UNCHANGED <<serverVars, connVars, pctVars, genVars, readerVars>>

\* if err != nil { failedRequests.Add(1); continue }
\* successRequests.Add(1)
countResult(w) ==
    /\ workers[w].pc = "returned"
    /\ IF workers[w].err
       THEN /\ failedRequests' = failedRequests + 1
            /\ successRequests' = successRequests
            /\ workers' = [workers EXCEPT
                             ![w] = [NoWorker EXCEPT !.pc = AfterFailure.pc]]
            /\ poolWg' = AfterFailure.wg
       ELSE /\ successRequests' = successRequests + 1
            /\ failedRequests' = failedRequests
            /\ workers' = [workers EXCEPT ![w].pc = "lock",
                                          ![w].resp = NoAnswer]
            /\ poolWg' = poolWg
    /\ UNCHANGED <<allocationTest, workChan, userPayloads, mu, totalRequests,
                   done, allocationPc, results>>
    /\ UNCHANGED <<serverVars, connVars, pctVars, genVars, readerVars>>

\* mu.Lock(): the mutex holds the worker's number plus one.
lockMu(w) ==
    /\ workers[w].pc = "lock"
    /\ CanLock(mu)
    /\ mu' = w + 1
    /\ workers' = [workers EXCEPT ![w].pc = "observe"]
    /\ UNCHANGED <<allocationTest, workChan, userPayloads, totalRequests,
                   successRequests, failedRequests, poolWg, done, allocationPc,
                   results>>
    /\ UNCHANGED <<serverVars, connVars, pctVars, genVars, readerVars>>

\* userPayloads[w.userID][payload]++; mu.Unlock(); back to the loop's head.
observeUnlock(w) ==
    /\ workers[w].pc = "observe"
    /\ userPayloads' = Observe(userPayloads, workers[w].userID,
                               workers[w].payload)
    /\ mu' = 0
    /\ workers' = [workers EXCEPT ![w] = AtRange]
    /\ UNCHANGED <<allocationTest, workChan, totalRequests, successRequests,
                   failedRequests, poolWg, done, allocationPc, results>>
    /\ UNCHANGED <<serverVars, connVars, pctVars, genVars, readerVars>>

\* wg.Wait() returns; close(done); analyzeResults; runAllocationTest
\* returns and main prints and writes the results.
waitAnalyze ==
    /\ allocationPc = "wait"
    /\ WaitReturns(poolWg)
    /\ done' = "closed"
    /\ \E primary \in RangeOrders(userPayloads),
          listed \in RangeOrders(userPayloads) :
          results' = AnalyzeResults(userPayloads, primary, listed,
                                    totalRequests, successRequests,
                                    failedRequests)
    /\ allocationPc' = "done"
    /\ UNCHANGED <<allocationTest, workChan, userPayloads, mu, totalRequests,
                   successRequests, failedRequests, workers, poolWg>>
    /\ UNCHANGED <<serverVars, connVars, pctVars, genVars, readerVars>>

\* The payload names makeRequest can return.
RecordedNames ==
    {makeRequest(resp).payload : resp \in {a \in Answers : ~makeRequest(a).err}}

\* The maps of one user: some of the names, each with a count.
UserMaps ==
    UNION {[names -> 1..MaxObserved] : names \in SUBSET RecordedNames \ {{}}}

\* The maps userPayloads can be when analyzeResults is called.
ObservedMaps == UNION {[1..k -> UserMaps] : k \in 0..MaxObserved}

\* The sum of the counts of every user.
RECURSIVE SumObserved(_)
SumObserved(observed) ==
    IF DOMAIN observed = {} THEN 0
    ELSE LET u == CHOOSE x \in DOMAIN observed : TRUE
         IN  SumCounts(observed[u])
                 + SumObserved([x \in DOMAIN observed \ {u} |-> observed[x]])

\* A call of analyzeResults on the recorded observations.
analyzeResults ==
    /\ allocationPc = "analyze"
    /\ \E primary \in RangeOrders(userPayloads),
          listed \in RangeOrders(userPayloads) :
          results' = AnalyzeResults(userPayloads, primary, listed,
                                    totalRequests, successRequests,
                                    failedRequests)
    /\ UNCHANGED <<allocationTest, workChan, userPayloads, mu, totalRequests,
                   successRequests, failedRequests, workers, poolWg, done,
                   allocationPc>>
    /\ UNCHANGED <<serverVars, connVars, pctVars, genVars, readerVars>>

\* ---------------------------------------------------------- the slow reader

\* Go's integer division, which truncates toward zero.
Quo(a, b) == IF a >= 0 THEN a \div b ELSE -((-a) \div b)

\* The default of the flag -slow-speed.
DefaultSlowSpeed == 1024

\* The values of -slow-speed of the modelled command lines: flag.Int takes
\* every integer.
SlowSpeeds == {-20, -10, -9, -1, 0, 1, 9, 10, 20, 25, DefaultSlowSpeed}

\* The bytes of the modelled response bodies.
BodyBytes == {65, 66}

\* The response bodies of at most n bytes.
ResponseBodies(n) == UNION {[1..k -> BodyBytes] : k \in 0..n}

\* The errors a response body ends with: io.EOF, or the error of a
\* connection that broke.
BodyErrors == {"EOF", "unexpected EOF"}

\* main: the SlowDownloadSpeed of the TestConfig.
mainSlowDownloadSpeed(slowSpeed, hogTest) ==
    IF hogTest /\ slowSpeed = DefaultSlowSpeed THEN 500 * 1024 ELSE slowSpeed

\* SlowReader.Read: the chunk it slices off a buffer of length len.
ChunkSize(bytesPerSec, len) ==
    LET perTick  == Quo(bytesPerSec, 10)
        atLeast1 == IF perTick = 0 THEN 1 ELSE perTick
    IN  IF atLeast1 > len THEN len ELSE atLeast1

\* What a Read of the response body with a buffer of k bytes can return,
\* when rest is still to come and the body ends with end: some bytes, or
\* all the bytes left together with the end, or the end alone.
BodyReads(rest, end, k) ==
    {[n |-> m, err |-> "nil"] :
        m \in 1..(IF k < Len(rest) THEN k ELSE Len(rest))}
    \cup (IF Len(rest) <= k THEN {[n |-> Len(rest), err |-> end]} ELSE {})

\* No slow request is looked at.
NoSlowReader ==
    [pc |-> "off", slowSpeed |-> DefaultSlowSpeed, hogTest |-> FALSE,
     bytesPerSec |-> 0, sent |-> <<>>, body |-> <<>>, end |-> "EOF",
     len |-> 0, asked |-> 0, n |-> 0, err |-> "nil",
     out |-> <<>>, copied |-> "none"]

ReaderOff == slowReader = NoSlowReader

\* io.Copy into io.Discard after a Read that returned err: it reads again
\* until an error, and returns nil for io.EOF.
CopyNext(err) ==
    IF err = "nil" THEN [pc |-> "read", copied |-> "none"]
    ELSE [pc |-> "returned", copied |-> IF err = "EOF" THEN "nil" ELSE err]

\* makeSlowRequest gets a 200 response and wraps its body in a SlowReader
\* of the configured speed; only a saturation test has slow clients.
makeSlowRequest ==
    /\ slowReader.pc = "request"
    /\ slowReader.hogTest
    /\ slowReader' =
          [slowReader EXCEPT
              !.pc = "read",
              !.bytesPerSec =
                  mainSlowDownloadSpeed(slowReader.slowSpeed,
                                        slowReader.hogTest)]
    /\ UNCHANGED <<serverVars, connVars, pctVars, genVars, verifierVars>>

\* SlowReader.Read on the copy buffer, up to its sleeps: a negative chunk
\* size makes the slice expression panic.
Read ==
    /\ slowReader.pc = "read"
    /\ LET chunkSize == ChunkSize(slowReader.bytesPerSec, slowReader.len)
       IN  IF chunkSize < 0 \/ chunkSize > slowReader.len
           THEN slowReader' =
                    [slowReader EXCEPT !.pc = "panic", !.asked = chunkSize]
           ELSE \E r \in BodyReads(slowReader.body, slowReader.end, chunkSize) :
                   slowReader' =
                      [slowReader EXCEPT
                          !.pc = IF r.n > 0 THEN "sleep"
                                 ELSE CopyNext(r.err).pc,
                          !.copied = IF r.n > 0 THEN "none"
                                     ELSE CopyNext(r.err).copied,
                          !.asked = chunkSize,
                          !.n = r.n,
                          !.err = r.err,
                          !.body = SubSeq(slowReader.body, r.n + 1,
                                          Len(slowReader.body)),
                          !.out = slowReader.out
                                     \o SubSeq(slowReader.body, 1, r.n)]
    /\ UNCHANGED <<serverVars, connVars, pctVars, genVars, verifierVars>>

\* The sleeps of a Read that got bytes are over: it sets lastRead and
\* returns n and err to the copy.
sleepRead ==
    /\ slowReader.pc = "sleep"
    /\ slowReader' =
          [slowReader EXCEPT
              !.pc = CopyNext(slowReader.err).pc,
              !.copied = CopyNext(slowReader.err).copied]
    /\ UNCHANGED <<serverVars, connVars, pctVars, genVars, verifierVars>>

\* ---------------------------------------------------------- specifications

\* No server process is looked at.
ServerOff ==
    /\ intSize = 64
    /\ dirErr = FALSE
    /\ entries = <<>>
    /\ payloads = <<>>
    /\ phase = "init"
    /\ requests = [i \in Requests |-> NoRequest]
    /\ responses = [i \in Requests |-> NoResponse]

\* Every connection is open and waits for a request.
ConnsOff == conns = [c \in Conns |-> IdleConn]

\* No call of calculatePercentile is looked at.
PctOff ==
    /\ sortedLatencies = <<>>
    /\ percentile = [num |-> 50, den |-> 100]
    /\ pctResult = NoResult

\* No load test is run.
GenOff ==
    /\ flags = NoFlags
    /\ config = NoConfig
    /\ stats = NewStats
    /\ clients = [c \in Clients |-> NoClient]
    /\ ctx = "none"
    /\ wg = 0
    /\ mainPc = "off"
    /\ warmed = FALSE
    /\ monitor = "off"
    /\ duration = 0
    /\ report = NoReport

\* No verifier is run.
VerifierOff ==
    /\ allocationTest = NoAllocationTest
    /\ workChan = <<>>
    /\ userPayloads = <<>>
    /\ mu = 0
    /\ totalRequests = 0
    /\ successRequests = 0
    /\ failedRequests = 0
    /\ workers = [w \in Workers |-> NoWorker]
    /\ poolWg = 0
    /\ done = "none"
    /\ allocationPc = "off"
    /\ results = NoResults

\* The process starts with an empty slice, on some build and directory.
InitWith(dirs) ==
    /\ intSize \in IntSizes
    /\ dirErr \in BOOLEAN
    /\ entries \in dirs
    /\ dirErr => entries = <<>>
    /\ payloads = <<>>
    /\ phase = "init"
    /\ requests = [i \in Requests |-> NoRequest]
    /\ responses = [i \in Requests |-> NoResponse]
    /\ ConnsOff
    /\ PctOff
    /\ GenOff
    /\ VerifierOff /\ ReaderOff

Init == InitWith(ServedDirs)

Next ==
    \/ init
    \/ main
    \/ \E i \in Requests, body \in Bodies : Post(i, body)
    \/ \E i \in Requests : Get(i)
    \/ \E i \in Requests : experiment(i)
    \/ \E i \in Requests : healthCheck(i)

\* The server from boot on, serving requests.
Spec == Init /\ [][Next]_vars

InitLoad == InitWith(Listings(MaxFiles))

NextLoad == init \/ main

\* The boot alone, over every listing of the bounded directory.
SpecLoad == InitLoad /\ [][NextLoad]_vars

InitConn == ServerOff /\ ConnsOff /\ PctOff /\ GenOff /\ VerifierOff /\ ReaderOff

NextConn ==
    \/ \E c \in Conns : arrive(c)
    \/ \E c \in Conns, n \in Chunks : respond(c, n)
    \/ \E c \in Conns : transmit(c)
    \/ \E c \in Conns : deadline(c)
    \/ tick

\* The connections of a listening server under its time limits.
SpecConn == InitConn /\ [][NextConn]_vars

InitPct ==
    /\ ServerOff
    /\ ConnsOff
    /\ GenOff
    /\ VerifierOff /\ ReaderOff
    /\ sortedLatencies \in SortedInputs
    /\ percentile \in Percentiles
    /\ pctResult = NoResult

NextPct == calculate

\* calculatePercentile on every bounded sorted collection and percentile.
SpecPct == InitPct /\ [][NextPct]_vars

InitGen ==
    /\ ServerOff
    /\ ConnsOff
    /\ PctOff
    /\ VerifierOff /\ ReaderOff
    /\ flags = NoFlags
    /\ config \in Configs
    /\ stats = NewStats
    /\ clients = [c \in Clients |-> NoClient]
    /\ ctx = "none"
    /\ wg = 0
    /\ mainPc = "health"
    /\ warmed = FALSE
    /\ monitor = "off"
    /\ duration = 0
    /\ report = NoReport

NextGen ==
    \/ checkHealth
    \/ startClient
    \/ warmUp
    \/ closeCtx
    \/ wait
    \/ stopMonitor
    \/ printResultsLoad
    \/ printResultsCopy
    \/ monitorProgress
    \/ \E c \in Clients : selectCtx(c)
    \/ \E c \in Clients : countTotal(c)
    \/ \E c \in Clients, outcome \in Outcomes :
          \E latency \in Latencies(c) : post(c, outcome, latency)
    \/ \E c \in Clients : lock(c)
    \/ \E c \in Clients : appendUnlock(c)
    \/ \E c \in Clients : countClass(c)

\* One run of the load generator from the health check on, for every
\* TestConfig main can build; the command line is not looked at.
SpecGen == InitGen /\ [][NextGen]_vars

InitFlags ==
    /\ ServerOff
    /\ ConnsOff
    /\ PctOff
    /\ VerifierOff /\ ReaderOff
    /\ flags \in Flags
    /\ config = NoConfig
    /\ stats = NewStats
    /\ clients = [c \in Clients |-> NoClient]
    /\ ctx = "none"
    /\ wg = 0
    /\ mainPc = "flags"
    /\ warmed = FALSE
    /\ monitor = "off"
    /\ duration = 0
    /\ report = NoReport

NextFlags == parseFlags \/ NextGen

\* One run of the load generator from its command line on.
SpecFlags == InitFlags /\ [][NextFlags]_vars

\* The steps of the main goroutine of the load generator from the health
\* check to the call of printResults.
MainSteps ==
    \/ checkHealth
    \/ startClient
    \/ warmUp
    \/ closeCtx
    \/ wait
    \/ stopMonitor

\* The steps of client goroutine c.
ClientSteps(c) ==
    \/ selectCtx(c)
    \/ countTotal(c)
    \/ \E outcome \in Outcomes :
          \E latency \in Latencies(c) : post(c, outcome, latency)
    \/ lock(c)
    \/ appendUnlock(c)
    \/ countClass(c)

\* A run in which every sleep ends, every HTTP request returns or times
\* out, and the scheduler does not stop while some goroutine can go on.
SpecGenFair ==
    /\ SpecGen
    /\ WF_vars(MainSteps \/ \E c \in Clients : ClientSteps(c))

InitVerifier ==
    /\ ServerOff
    /\ ConnsOff
    /\ PctOff
    /\ GenOff /\ ReaderOff
    /\ allocationTest \in AllocationTests
    /\ workChan = <<>>
    /\ userPayloads = <<>>
    /\ mu = 0
    /\ totalRequests = 0
    /\ successRequests = 0
    /\ failedRequests = 0
    /\ workers = [w \in Workers |-> NoWorker]
    /\ poolWg = 0
    /\ done = "none"
    /\ allocationPc = "health"
    /\ results = NoResults

NextVerifier ==
    \/ checkHealthAllocation
    \/ startWorker
    \/ startProgress
    \/ progress
    \/ \E w \in Workers : receiveWork(w)
    \/ \E w \in Workers : countRequest(w)
    \/ \E w \in Workers, resp \in Answers : returnRequest(w, resp)
    \/ \E w \in Workers : countResult(w)
    \/ \E w \in Workers : lockMu(w)
    \/ \E w \in Workers : observeUnlock(w)
    \/ waitAnalyze

\* One run of the verifier, from main on.
SpecVerifier == InitVerifier /\ [][NextVerifier]_vars

InitAnalysis ==
    /\ ServerOff
    /\ ConnsOff
    /\ PctOff
    /\ GenOff /\ ReaderOff
    /\ allocationTest = NoAllocationTest
    /\ workChan = <<>>
    /\ userPayloads \in ObservedMaps
    /\ mu = 0
    /\ totalRequests = SumObserved(userPayloads)
    /\ successRequests = SumObserved(userPayloads)
    /\ failedRequests = 0
    /\ workers = [w \in Workers |-> NoWorker]
    /\ poolWg = 0
    /\ done = "closed"
    /\ allocationPc = "analyze"
    /\ results = NoResults

NextAnalysis == analyzeResults

\* analyzeResults on every bounded map of observations, called any number
\* of times.
SpecAnalysis == InitAnalysis /\ [][NextAnalysis]_vars

InitReader ==
    /\ ServerOff
    /\ ConnsOff
    /\ PctOff
    /\ GenOff
    /\ VerifierOff
    /\ \E speed \in SlowSpeeds, hog \in BOOLEAN, b \in ResponseBodies(MaxBody),
          e \in BodyErrors, l \in 1..MaxBuf :
          slowReader =
             [NoSlowReader EXCEPT
                 !.pc = "request", !.slowSpeed = speed, !.hogTest = hog,
                 !.sent = b, !.body = b, !.end = e, !.len = l]

NextReader == makeSlowRequest \/ Read \/ sleepRead

\* One slow request of the load generator, from its command line on.
SpecReader == InitReader /\ [][NextReader]_vars

\* ------------------------------------------------------------------ claims

Done(i) == requests[i].st = "done"
Experiments == {i \in Requests : Done(i) /\ requests[i].route = "experiment"}

\* The userId member of a request body as written: a non-empty string.
HasUserId(body) ==
    /\ body.syntax = "ok"
    /\ body.v.t = "obj"
    /\ \E m \in 1..Len(body.v.e) :
          /\ body.v.e[m].s = UserIdKey
          /\ body.v.e[m].e[1].t = "str"
          /\ body.v.e[m].e[1].s # <<>>

UserIdOf(body) ==
    body.v.e[CHOOSE m \in 1..Len(body.v.e) : body.v.e[m].s = UserIdKey].e[1].s

\* The selectedPayloadName and payload members of a response body.
NameIn(body) == MapGet(body.v.e, SelectedPayloadNameKey)
PayloadIn(body) == MapGet(body.v.e, PayloadKey)

C2_IndexInRange ==
    \A i \in Experiments :
        responses[i].called
        => /\ 0 <= responses[i].index
           /\ responses[i].index < Len(payloads)
           /\ responses[i].status = 200

\* The hash of the claim as amended: from the offset basis, one
\* xor-then-multiply step per byte, in byte order.
HashXorMul(key) ==
    LET f[i \in 0..Len(key)] ==
            IF i = 0 THEN Offset32 ELSE MulPrime32(XorByte(f[i - 1], key[i]))
    IN  f[Len(key)]

\* The hash as the claim words it: one multiply-then-xor step per byte.
HashMulXor(key) ==
    LET f[i \in 0..Len(key)] ==
            IF i = 0 THEN Offset32 ELSE XorByte(MulPrime32(f[i - 1]), key[i])
    IN  f[Len(key)]

\* Whether int(h) keeps the value of the 32-bit word h.
KeepsValue(h) == intSize = 64 \/ h.hi < 2 ^ 15

IsErrorBody(body) ==
    /\ body.syntax = "ok"
    /\ body.v.t = "obj"
    /\ Len(body.v.e) = 1
    /\ body.v.e[1].s = ErrorKey
    /\ body.v.e[1].e[1].t = "str"

\* C4: POST /experiment answers 400 with an error body, and selects no
\* payload, whenever the body is unparsable or its userId is missing or
\* empty; it answers 200 only when userId is a non-empty string.
C4_ValidationRejects ==
    \A i \in Experiments :
        /\ ~HasUserId(requests[i].body)
              => /\ responses[i].status = 400
                 /\ IsErrorBody(responses[i].body)
                 /\ ~responses[i].called
        /\ responses[i].status = 200 => HasUserId(requests[i].body)

\* A body that is no JSON, has no userId or has an empty userId was
\* answered 400, and a body with a userId was answered 200.
C4_Witness ==
    \E i, j \in Experiments :
        /\ requests[i].body \in {BadText, EmptyObjectBody, RequestBody(<<>>)}
        /\ responses[i].status = 400
        /\ HasUserId(requests[j].body)
        /\ responses[j].status = 200

\* C5: for every non-empty userId the response is 200 with experimentId
\* "exp-localization-v1", selectedPayloadName the name of the variant at
\* index assign(userId, n) = FNV-1a(userId) mod n, and payload the content
\* of that same variant as a JSON value.
C5_ResponseIsAssignedVariant ==
    \A i \in Experiments :
        HasUserId(requests[i].body)
        => LET assigned ==
                   payloads[ModU32(HashXorMul(UserIdOf(requests[i].body)),
                                   Len(payloads)) + 1]
           IN  /\ responses[i].status = 200
               /\ responses[i].body.syntax = "ok"
               /\ MapGet(responses[i].body.v.e, ExperimentIdKey)
                      = JStr(ExperimentIdV1)
               /\ NameIn(responses[i].body) = JStr(assigned.Name)
               /\ PayloadIn(responses[i].body) = assigned.Content.v

\* A listing from which the loader can take no variant: every entry is a
\* directory, has no .json name, cannot be read, is no JSON, or holds an
\* empty "payloads" array.
YieldsNone(dir) ==
    \A i \in 1..Len(dir) :
        \/ dir[i].isDir
        \/ ~HasSuffix(dir[i].name, DotJson)
        \/ ~dir[i].readable
        \/ dir[i].content.syntax = "bad"
        \/ dir[i].content = DocPayloads0

\* C6: boot fails whenever loading produces zero variants (an empty
\* directory, only non-.json entries, only malformed files, only files
\* with an empty "payloads" array), so main is never reached and no request
\* is ever sent to or handled by a process with an empty store.
C6_EmptyStoreIsFatal ==
    /\ phase # "init" => (phase = "fatal" <=> Len(payloads) = 0)
    /\ (phase # "init" /\ YieldsNone(entries)) => phase = "fatal"
    /\ \A i \in Requests :
          requests[i].st # "idle" => (phase = "listening" /\ Len(payloads) > 0)

\* Boot failed on a directory of two files that hold empty "payloads"
\* arrays.
C6_Witness ==
    /\ phase = "fatal"
    /\ ~dirErr
    /\ Len(entries) = 2
    /\ \A i \in 1..Len(entries) : entries[i] \in {File(NameA, DocPayloads0),
                                                  File(NameB, DocPayloads0)}

Loaded == phase # "init" /\ ~dirErr

\* The entries the loader takes: no directory, a name ending in ".json".
JsonFiles(dir) ==
    {dir[i] : i \in {j \in 1..Len(dir) :
                       ~dir[j].isDir /\ HasSuffix(dir[j].name, DotJson)}}

\* The store a set of files determines: the variants of the file with the
\* least name, then those of the rest.
RECURSIVE StoreOfFiles(_)
StoreOfFiles(files) ==
    IF files = {} THEN <<>>
    ELSE LET least == CHOOSE f \in files :
                         \A g \in files \ {f} : StrLess(f.name, g.name)
         IN  LoadFile(<<least>>, least.name) \o StoreOfFiles(files \ {least})

\* C7: the store is a function of the set of .json files of the directory:
\* the files in ascending ordinal order of their names, each file's
\* variants contiguous, whatever the order of the listing.
C7_StoreIsFunctionOfFileSet ==
    Loaded => payloads = StoreOfFiles(JsonFiles(entries))

\* A store of several variants was built from a listing that is not in
\* ascending order of names.
C7_Witness ==
    /\ Loaded
    /\ Len(entries) > 1
    /\ entries[1] \in JsonFiles(entries)
    /\ entries[2] \in JsonFiles(entries)
    /\ StrLess(entries[2].name, entries[1].name)
    /\ LoadFile(entries, entries[1].name) # <<>>
    /\ LoadFile(entries, entries[2].name) # <<>>

\* Whether the document written in a text is an object with a member
\* "payloads" that is an array.
HasPayloadsArray(content) ==
    /\ content.syntax = "ok"
    /\ content.v.t = "obj"
    /\ \E m \in 1..Len(content.v.e) :
          content.v.e[m].s = PayloadsKey /\ content.v.e[m].e[1].t = "arr"

PayloadsArrayOf(content) ==
    content.v.e[CHOOSE m \in 1..Len(content.v.e) :
                    content.v.e[m].s = PayloadsKey].e[1].e

\* The positions of the store at which the variant is called name.
Named(name) == {i \in 1..Len(payloads) : payloads[i].Name = name}

\* The positions of the store whose name starts with prefix.
Prefixed(prefix) ==
    {i \in 1..Len(payloads) :
        /\ Len(payloads[i].Name) >= Len(prefix)
        /\ SubSeq(payloads[i].Name, 1, Len(prefix)) = prefix}

\* C8: every .json file that is valid JSON and is not an object with an
\* array-valued "payloads" member (a top-level array, string, number,
\* boolean or null included) contributes exactly one variant, named after
\* the file, whose content is the file's raw bytes.
C8_OtherJsonIsOneVariant ==
    Loaded =>
        \A f \in JsonFiles(entries) :
            (f.readable /\ f.content.syntax = "ok" /\ ~HasPayloadsArray(f.content))
            => /\ Cardinality(Prefixed(f.name)) = 1
               /\ \A i \in Named(f.name) : payloads[i].Content = f.content

\* C9: a file whose top-level object has a "payloads" array of k elements
\* contributes exactly k variants and no whole-file variant; the i-th
\* (0-based, array order) is named "<filename>[i]" and holds the
\* serialization of the i-th element.
C9_PayloadsArrayIsExploded ==
    Loaded =>
        \A f \in JsonFiles(entries) :
            (f.readable /\ HasPayloadsArray(f.content))
            => LET arr == PayloadsArrayOf(f.content)
               IN  /\ Cardinality(Prefixed(f.name)) = Len(arr)
                   /\ Named(f.name) = {}
                   /\ \E first \in 0..Len(payloads) :
                         \A i \in 1..Len(arr) :
                            /\ first + i <= Len(payloads)
                            /\ payloads[first + i].Name
                                   = f.name \o <<91>> \o FormatInt(i - 1) \o <<93>>
                            /\ payloads[first + i].Content.syntax = "ok"
                            /\ ~payloads[first + i].Content.ws
                            /\ Decode(payloads[first + i].Content.v)
                                   = Decode(arr[i])

\* A file with a "payloads" array of two elements was loaded after another
\* file's variant.
C9_Witness ==
    /\ Loaded
    /\ \E f \in JsonFiles(entries) :
          /\ f.content = DocPayloads2
          /\ \E i \in 2..Len(payloads) : payloads[i].Name = PayloadName(f.name, 0)

\* A file that cannot be read or parsed.
Unloadable(f) == ~f.readable \/ f.content.syntax = "bad"

\* The listing without its i-th entry.
Without(dir, i) == SubSeq(dir, 1, i - 1) \o SubSeq(dir, i + 1, Len(dir))

\* C10: a file that cannot be read or parsed is skipped without aborting
\* boot: it contributes no variant, and the store (hence the outcome of the
\* boot) is the one the directory without that file yields.
C10_BadFileIsSkipped ==
    Loaded =>
        \A i \in 1..Len(entries) :
            (entries[i] \in JsonFiles(entries) /\ Unloadable(entries[i]))
            => /\ Prefixed(entries[i].name) = {}
               /\ payloads = BuildStore(Without(entries, i))
               /\ phase = "fatal" <=> BuildStore(Without(entries, i)) = <<>>

\* Boot went on past a file that is no JSON and loaded a file whose name
\* comes later.
C10_Witness ==
    /\ phase = "main"
    /\ \E i, j \in 1..Len(entries) :
          /\ entries[i] \in JsonFiles(entries)
          /\ entries[i].readable
          /\ entries[i].content.syntax = "bad"
          /\ StrLess(entries[i].name, entries[j].name)
          /\ Named(entries[j].name) # {}

\* C11: once the server listens, no /health or /experiment request, valid
\* or not, in any interleaving, changes the store: its length, its order,
\* the names and the contents stay as init built them.
C11_RequestsLeaveStore ==
    [][phase = "listening" => payloads' = payloads]_vars

\* Every request was handled, one answered 200 and one 400, and the store
\* of several variants is the one init built.
C11_Witness ==
    /\ phase = "listening"
    /\ \A i \in Requests : Done(i)
    /\ \E i, j \in Requests :
          /\ responses[i].status = 200
          /\ responses[j].status = 400
    /\ Len(payloads) > 1
    /\ payloads = BuildStore(entries)

\* C12: in every store the loader builds the names are pairwise distinct:
\* no two whole-file variants, no two exploded variants and no whole-file
\* and exploded variant share a name.
C12_NamesAreDistinct ==
    Loaded =>
        \A i, j \in 1..Len(payloads) :
            i # j => payloads[i].Name # payloads[j].Name

\* A store holds a whole-file variant and the exploded variants of two
\* elements of another file.
C12_Witness ==
    /\ Loaded
    /\ \E i, j, k \in 1..Len(payloads) :
          /\ HasSuffix(payloads[i].Name, DotJson)
          /\ j # k
          /\ HasSuffix(payloads[j].Name, <<93>>)
          /\ HasSuffix(payloads[k].Name, <<93>>)

\* C13: a connection whose response is not written in full within the
\* write timeout of 10 s is closed by the server: no connection stays in
\* the writing of one response for more than 10 s, and the step that closes
\* it leaves every other connection as it was.
C13_WriteTimeoutCloses ==
    /\ [](\A c \in Conns : conns[c].st = "writing" => conns[c].timer <= 10)
    /\ [][\A c \in Conns :
            conns[c].st = "writing" /\ conns'[c].st = "closed"
                => \A d \in Conns \ {c} : conns'[d] = conns[d]]_vars

\* A connection was closed with part of its response unsent while another
\* connection is being written to.
C13_Witness ==
    \E c, d \in Conns :
        /\ conns[c].st = "closed"
        /\ conns[c].left > 0
        /\ conns[d].st = "writing"

\* The clients at one of the places pcs of their code.
At(pcs) == {c \in Clients : clients[c].pc \in pcs}

\* The requests client c has counted in totalRequests: one per finished
\* iteration, and one more once the iteration under way has counted.
Issued(c) ==
    clients[c].i
        + (IF clients[c].pc \in {"post", "lock", "append", "counted"}
           THEN 1 ELSE 0)

\* The sum of f over the clients 1..n.
RECURSIVE SumTo(_, _)
SumTo(f, n) == IF n = 0 THEN 0 ELSE f[n] + SumTo(f, n - 1)

\* runLoadTest has returned.
Drained == mainPc \in {"stop", "print", "copy", "done"}

\* C14: once close(ctx) has happened, a fast or slow client at the top of
\* its loop returns without issuing another request: no iteration that
\* begins after the signal starts a request.
C14_CancelledClientsReturn ==
    [][\A c \in Clients :
          ctx = "closed" /\ clients[c].pc = "top"
              => clients'[c].pc \in {"top", "done"}]_vars

\* A fast and a slow client returned on the closed ctx with requests left
\* in their budget.
C14_Witness ==
    /\ ctx = "closed"
    /\ \E c \in FastIds, d \in SlowIds :
          /\ clients[c].pc = "done"
          /\ clients[c].i < config.RequestsPerClient
          /\ clients[d].pc = "done"
          /\ clients[d].i < config.RequestsPerClient

\* A step that changes no counter and no slice of samples.
StatsStay ==
    /\ Counters(stats)' = Counters(stats)
    /\ stats'.fastLatencies = stats.fastLatencies
    /\ stats'.slowLatencies = stats.slowLatencies

\* C15: statistics are computed and printed only after every started
\* client has returned: when printResults begins no client is running, and
\* from then on no counter changes and no sample is appended.
C15_StatisticsAfterDrain ==
    /\ [](mainPc \in {"print", "copy", "done"}
            => \A c \in Clients : clients[c].pc \in {"idle", "done"})
    /\ [][(mainPc \in {"print", "copy", "done"}) => StatsStay]_vars

\* The results of a run in which two clients issued requests were printed.
C15_Witness ==
    /\ mainPc = "done"
    /\ report.printed
    /\ report.totalRequests > 1
    /\ \E c, d \in Clients :
          c # d /\ clients[c].i > 0 /\ clients[d].i > 0

\* C16: in saturation mode no fast client is started, and so none issues a
\* request, before every configured slow client has been started and the
\* warm-up sleep has returned; no slow client is started after a fast one.
C16_SlowClientsFirst ==
    /\ [](config.ConnectionHogTest /\ Started(FastIds) # {}
            => /\ warmed
               /\ Cardinality(Started(SlowIds)) = config.SlowClients)
    /\ [][(config.ConnectionHogTest /\ Started(FastIds) # {})
            => (Started(SlowIds)' = Started(SlowIds))]_vars

\* In saturation mode a fast client has issued a request after a slow
\* client was started.
C16_Witness ==
    /\ config.ConnectionHogTest
    /\ Started(SlowIds) # {}
    /\ \E c \in FastIds : Issued(c) > 0

\* C17: under every interleaving no update is lost: at most one client is
\* inside an append, and it holds latenciesMutex and appends to the slice
\* as it read it; totalRequests, fastRequests and slowRequests hold every
\* increment the clients made; the clients share nothing else.
C17_NoUpdateIsLost ==
    /\ Cardinality(At({"append"})) <= 1
    /\ \A c \in At({"append"}) :
          /\ stats.latenciesMutex = c
          /\ clients[c].seen = Len(LatenciesOf(stats, c))
    /\ stats.totalRequests = SumTo([c \in Clients |-> Issued(c)], 2 * MaxClients)
    /\ stats.fastRequests =
          SumTo([c \in Clients |-> IF c \in FastIds THEN clients[c].i ELSE 0],
                2 * MaxClients)
    /\ stats.slowRequests =
          SumTo([c \in Clients |-> IF c \in SlowIds THEN clients[c].i ELSE 0],
                2 * MaxClients)

\* A client waits for the mutex while another is inside its append.
C17_Witness ==
    \E c, d \in Clients :
        /\ clients[c].pc = "append"
        /\ clients[d].pc = "lock"

\* C18: every request issued is counted once in totalRequests and once in
\* successRequests or failedRequests, and a sample is recorded exactly for
\* the requests counted successful (status 200, body read to its end):
\* success + failed <= total at every moment, and after the drain total =
\* success + failed and the two slices together hold success samples.
C18_EveryRequestCountedOnce ==
    /\ stats.totalRequests = SumTo([c \in Clients |-> Issued(c)], 2 * MaxClients)
    /\ stats.totalRequests =
          stats.successRequests + stats.failedRequests
              + Cardinality(At({"post"}))
    /\ stats.successRequests =
          Len(stats.fastLatencies) + Len(stats.slowLatencies)
              + Cardinality(At({"lock", "append"}))
    /\ \A c \in At({"lock", "append"}) : clients[c].outcome = "ok"
    /\ \A c \in At({"counted"}) :
          clients[c].outcome # "ok" => clients[c].latency = 0
    /\ stats.successRequests + stats.failedRequests <= stats.totalRequests
    /\ Drained =>
          /\ stats.totalRequests = stats.successRequests + stats.failedRequests
          /\ Len(stats.fastLatencies) + Len(stats.slowLatencies)
                = stats.successRequests

\* After the drain of a run one request is counted successful and one
\* failed.
C18_Witness ==
    /\ Drained
    /\ stats.successRequests > 0
    /\ stats.failedRequests > 0

\* C19: for an ascending collection of n >= 1 latencies and a percentile p
\* of 0.50, 0.90 or 0.99, calculatePercentile returns the element at index
\* min(floor(p * n), n - 1), counted from 0, so that 10, 20, 30, 40, 50 has
\* p50 = 30, p90 = 50 and p99 = 50; for the empty collection it returns 0;
\* it never indexes out of range.
C19_PercentileIsFloorIndex ==
    pctResult # NoResult =>
        LET n == Len(sortedLatencies)
        IN  /\ ~pctResult.panic
            /\ n = 0 => pctResult.value = 0
            /\ n > 0 =>
                  \E k \in 0..n :
                      /\ k * percentile.den <= percentile.num * n
                      /\ percentile.num * n < (k + 1) * percentile.den
                      /\ pctResult.value
                            = sortedLatencies[IF k < n THEN k + 1 ELSE n]
            /\ sortedLatencies = <<10, 20, 30, 40, 50>> =>
                  pctResult.value = IF percentile.num = 50 THEN 30 ELSE 50

\* The p90 of 10, 20, 30, 40, 50 was computed as 50.
C19_Witness ==
    /\ sortedLatencies = <<10, 20, 30, 40, 50>>
    /\ percentile = [num |-> 90, den |-> 100]
    /\ pctResult = [panic |-> FALSE, value |-> 50]

\* C20: each throughput figure printed (overall, fast, slow) is the number
\* of successful requests of its class over the elapsed time of the run;
\* failed requests are in no numerator.
C20_ThroughputCountsSuccesses ==
    report.printed =>
        /\ report.rps = Rate(stats.successRequests, duration)
        /\ report.fastShown
              => report.fastRps = Rate(Len(stats.fastLatencies), duration)
        /\ report.slowShown
              => report.slowRps = Rate(Len(stats.slowLatencies), duration)

\* C21: the load generator starts exactly as many slow clients as -slow
\* says and exactly as many fast clients as -fast says, whatever -mode and
\* -hog-test are: once runLoadTest has started its goroutines, the numbers
\* of started clients are the two flags.
C21_ClientCountsAreTheFlags ==
    mainPc \in {"wait", "stop", "print", "copy", "done"}
        => /\ Cardinality(Started(FastIds)) = flags.fast
           /\ Cardinality(Started(SlowIds)) = flags.slow

\* The work items of the run: users times requests per user.
WorkItems == allocationTest.numUsers * allocationTest.requestsPerUser

\* C22: for every user count, requests per user and concurrency, when the
\* run has ended exactly users x requests requests were issued: every work
\* item was taken from the channel and counted once, and totalRequests =
\* users x requests = successRequests + failedRequests.
C22_AllWorkIsIssuedOnce ==
    allocationPc = "done"
        => /\ workChan = <<>>
           /\ totalRequests = WorkItems
           /\ results.TotalRequests = WorkItems
           /\ totalRequests = successRequests + failedRequests

\* The users with exactly one, and with two or more, distinct names
\* recorded.
OneName == {u \in DOMAIN userPayloads : Cardinality(DOMAIN userPayloads[u]) = 1}
SeveralNames ==
    {u \in DOMAIN userPayloads : Cardinality(DOMAIN userPayloads[u]) >= 2}

\* C23: in the analysis a user is marked consistent if and only if exactly
\* one distinct payload name was recorded for that user; every user with
\* two or more names is counted inconsistent and has exactly one detail,
\* which lists each recorded name once, with its count.
C23_ConsistentIffOneName ==
    results.analyzed
        => /\ \A u \in DOMAIN userPayloads :
                 results.UserAllocations[u].Consistent <=> u \in OneName
           /\ results.ConsistentUsers = Cardinality(OneName)
           /\ results.InconsistentUsers = Cardinality(SeveralNames)
           /\ DOMAIN results.InconsistentDetails = SeveralNames
           /\ \A u \in SeveralNames :
                 LET detail == results.InconsistentDetails[u]
                 IN  /\ Len(detail) = Cardinality(DOMAIN userPayloads[u])
                     /\ {<<detail[i].payload, detail[i].count>> :
                            i \in DOMAIN detail}
                          = {<<name, userPayloads[u][name]>> :
                                name \in DOMAIN userPayloads[u]}

\* A run was analysed in which a user got two names, one of them twice.
C23_Witness ==
    /\ results.analyzed
    /\ \E u \in SeveralNames :
          /\ results.InconsistentUsers = 1
          /\ ~results.UserAllocations[u].Consistent
          /\ \E name \in DOMAIN userPayloads[u] : userPayloads[u][name] = 2

\* The greatest count recorded for user u.
MaxCount(u) ==
    CHOOSE n \in {userPayloads[u][name] : name \in DOMAIN userPayloads[u]} :
        \A name \in DOMAIN userPayloads[u] : userPayloads[u][name] <= n

\* C24: each user is attributed to a payload name it observed most often,
\* and the attribution and the distribution tally are the same on every
\* analysis of the same recorded observations: a second call of
\* analyzeResults on the same map returns the same UserAllocations and the
\* same PayloadDistribution.
C24_AttributionIsDetermined ==
    /\ [](results.analyzed
            => \A u \in DOMAIN userPayloads :
                  userPayloads[u][results.UserAllocations[u].PayloadName]
                      = MaxCount(u))
    /\ [][(results.analyzed /\ results'.analyzed)
            => (/\ results'.UserAllocations = results.UserAllocations
                /\ results'.PayloadDistribution = results.PayloadDistribution)]_vars

\* An answer makeRequest cannot take a payload name from: no answer, a
\* status other than 200, a body that breaks off or that does not decode.
Failing(resp) ==
    \/ resp.err
    \/ resp.status # 200
    \/ ~resp.readable
    \/ resp.body.syntax = "bad"

\* The step of worker w that follows a failed makeRequest.
FailureStep(w) ==
    /\ workers[w].pc = "returned"
    /\ workers[w].err
    /\ workers'[w] # workers[w]

\* C25: a failed request (transport error, status other than 200,
\* unreadable or undecodable body) is counted once in failedRequests, is
\* not put back into the work channel, adds nothing to the observations
\* and does not stop the worker, which goes back to take the next item; a
\* run with failed requests still ends with every work item processed and
\* every successful result recorded.
C25_FailureIsIsolated ==
    /\ [](\A w \in Workers :
             workers[w].pc = "returned" /\ Failing(workers[w].resp)
                 => workers[w].err)
    /\ [][\A w \in Workers :
             FailureStep(w)
                 => (/\ failedRequests' = failedRequests + 1
                     /\ successRequests' = successRequests
                     /\ totalRequests' = totalRequests
                     /\ workChan' = workChan
                     /\ userPayloads' = userPayloads
                     /\ poolWg' = poolWg
                     /\ workers'[w].pc = "range")]_vars
    /\ [](allocationPc = "done" /\ failedRequests > 0
            => /\ workChan = <<>>
               /\ totalRequests = WorkItems
               /\ successRequests = WorkItems - failedRequests
               /\ SumObserved(userPayloads) = successRequests)

\* A run of one worker for one user ended with a failed request and a
\* recorded one.
C25_Witness ==
    /\ allocationPc = "done"
    /\ allocationTest.numUsers = 1
    /\ allocationTest.concurrency = 1
    /\ failedRequests >= 1
    /\ 1 \in DOMAIN userPayloads

\* Worker w has got a 200 response of the Request Service from makeRequest's
\* POST.
GotServiceAnswer(w) ==
    workers[w].pc = "returned" /\ workers[w].resp \in ServiceAnswers

\* C26: every 200 response the Request Service produces for a non-empty
\* userId, the payload embedded as an object, an array or a primitive, is
\* accepted by makeRequest, which returns the response's
\* selectedPayloadName and no error; the worker then counts the request
\* successful and goes on to record that name.
C26_ServiceResponsesAreAccepted ==
    /\ [](\A w \in Workers :
             GotServiceAnswer(w)
                 => /\ ~workers[w].err
                    /\ workers[w].payload = NameIn(workers[w].resp.body).s)
    /\ [][\A w \in Workers :
             (GotServiceAnswer(w) /\ workers'[w] # workers[w])
                 => (/\ successRequests' = successRequests + 1
                     /\ failedRequests' = failedRequests
                     /\ workers'[w].pc = "lock"
                     /\ workers'[w].payload
                          = NameIn(workers[w].resp.body).s)]_vars

\* The requests the clients of ids have issued.
IssuedBy(ids) == SumTo([c \in Clients |-> IF c \in ids THEN Issued(c) ELSE 0],
                       2 * MaxClients)

\* C27: each client issues at most RequestsPerClient requests, one per
\* iteration of its loop whether the request succeeds or fails, so
\* totalRequests is the number of iterations begun and never exceeds
\* (FastClients + SlowClients) x RequestsPerClient; once runLoadTest has
\* returned, fastRequests + slowRequests = totalRequests.
C27_BudgetBoundsRequests ==
    /\ \A c \in Clients :
          /\ Issued(c) <= config.RequestsPerClient
          /\ clients[c].pc \in {"counted", "lock", "append"}
                => clients[c].outcome \in Outcomes
    /\ stats.totalRequests = IssuedBy(Clients)
    /\ stats.totalRequests
          <= (config.FastClients + config.SlowClients)
                 * config.RequestsPerClient
    /\ Drained => stats.fastRequests + stats.slowRequests = stats.totalRequests

\* A run has ended in which a client used up its budget and a request
\* failed.
C27_Witness ==
    /\ Drained
    /\ stats.failedRequests >= 1
    /\ \E c \in Clients :
          /\ config.RequestsPerClient >= 1
          /\ clients[c].i = config.RequestsPerClient

\* The workers inside makeRequest: the POST is sent and has not come back.
InFlight == {w \in Workers : workers[w].pc = "post"}

\* C28: at no moment are more than `concurrency` requests of the verifier
\* in flight: the number of workers inside makeRequest never exceeds
\* -concurrency, whatever the numbers of users and of requests per user.
C28_InFlightWithinConcurrency ==
    /\ Cardinality(InFlight) <= allocationTest.concurrency
    /\ StartedWorkers <= allocationTest.concurrency

\* Every worker of the largest pool is inside makeRequest while an item waits
\* in the channel.
C28_Witness ==
    /\ allocationTest.concurrency = MaxWorkers
    /\ Cardinality(InFlight) = MaxWorkers
    /\ workChan # <<>>

\* The goroutines runLoadTest starts for the configuration.
Configured ==
    {c \in FastIds : c <= config.FastClients}
        \cup {c \in SlowIds : c - MaxClients <= config.SlowClients}

\* C29: provided every HTTP request returns or times out, runLoadTest
\* terminates in both modes, for every client count and budget: main gets
\* to the call of printResults, ctx is closed once and never reopened, when runLoadTest
\* returns every configured client has been started and has returned on its
\* own, and the progress monitor has taken the stop signal before the
\* results are printed.
C29_RunLoadTestTerminates ==
    /\ <>(mainPc \in {"exit", "print", "copy", "done"})
    /\ [][ctx' # ctx
            => (\/ ctx = "none" /\ ctx' = "open"
                \/ ctx = "open" /\ ctx' = "closed")]_vars
    /\ [](Drained
            => /\ ctx = "closed"
               /\ wg = 0
               /\ \A c \in Configured : clients[c].pc = "done"
               /\ \A c \in Clients \ Configured : clients[c].pc = "idle")
    /\ [](mainPc \in {"print", "copy", "done"} => monitor = "stopped")

\* A saturation test has ended in which a client used up its budget.
C29_Witness ==
    /\ mainPc = "done"
    /\ monitor = "stopped"
    /\ ctx = "closed"
    /\ config.ConnectionHogTest
    /\ \E c \in Configured :
          /\ config.RequestsPerClient >= 1
          /\ clients[c].i = config.RequestsPerClient

\* The sum of the RequestCount of every user allocation.
RECURSIVE SumRequestCount(_)
SumRequestCount(allocations) ==
    IF DOMAIN allocations = {} THEN 0
    ELSE LET u == CHOOSE x \in DOMAIN allocations : TRUE
         IN  allocations[u].RequestCount
                 + SumRequestCount([x \in DOMAIN allocations \ {u} |->
                                       allocations[x]])

\* The equalities of the report that do not involve the number of users
\* the run was given.
ReportAddsUp ==
    /\ results.ConsistentUsers + results.InconsistentUsers = results.TotalUsers
    /\ SumCounts(results.PayloadDistribution) = results.TotalUsers
    /\ SumRequestCount(results.UserAllocations) = successRequests
    /\ results.SuccessfulRequests = successRequests

\* C30: after any run the reported TotalUsers is the number of synthetic
\* users the run was given, ConsistentUsers + InconsistentUsers =
\* TotalUsers, the per-payload tallies sum to TotalUsers, and the users'
\* RequestCounts sum to successRequests, also when requests of a user fail.
\* Stated of the runs that issued a request or more for every user (a pool
\* without a worker issues none).
C30_ReportCountsEveryUser ==
    allocationPc = "done" /\ allocationTest.requestsPerUser >= 1
        /\ totalRequests = WorkItems
        => /\ results.TotalUsers = allocationTest.numUsers
           /\ ReportAddsUp

\* The most bytes a Read of the slow request may ask the response body for:
\* min(len(p), max(1, bytesPerSec / 10)).
MostAsked ==
    LET perTick == Quo(slowReader.bytesPerSec, 10)
        atLeast1 == IF perTick > 1 THEN perTick ELSE 1
    IN  IF slowReader.len < atLeast1 THEN slowReader.len ELSE atLeast1

\* The copy through the SlowReader hands on the bytes of the response body
\* in order and ends as the body ends, and no Read slices outside the copy
\* buffer or asks for more than MostAsked bytes.
ReadIsTransparent ==
    /\ slowReader.pc # "panic"
    /\ slowReader.asked >= 0
    /\ slowReader.asked <= MostAsked
    /\ slowReader.out \o slowReader.body = slowReader.sent
    /\ slowReader.pc = "returned"
          => /\ slowReader.out = slowReader.sent
             /\ slowReader.copied
                   = (IF slowReader.end = "EOF" THEN "nil" ELSE slowReader.end)

\* C31: reading a response through SlowReader until EOF delivers exactly the
\* bytes of the underlying reader, in order, with the underlying error
\* passed through; each Read asks the underlying reader for at most
\* min(len(p), max(1, bytesPerSec / 10)) bytes and never slices outside the
\* caller's buffer, for every bytesPerSec the configuration can supply.
C31_SlowReaderIsTransparent == ReadIsTransparent

\* The same for the speeds whose tenth is above -1.
TransparentAboveMinusTen ==
    slowReader.bytesPerSec > -10 => ReadIsTransparent

\* A copy through a SlowReader of a speed above -10 has returned all of a
\* body of several bytes, which took several Reads.
TransparentAboveMinusTenSeen ==
    /\ slowReader.pc = "returned"
    /\ slowReader.bytesPerSec > -10
    /\ Len(slowReader.sent) > slowReader.len
    /\ slowReader.end = "unexpected EOF"

====
